---- MODULE Spec2Model ----
(***************************************************************************)
(* A model of the blockchainAnalysis scripts: the request helpers          *)
(* (scripts/common/utils.py, scripts/node_counts), the per-network         *)
(* aggregators (scripts/blockchains/*.py), the CSV persister and the       *)
(* pie-chart renderer (scripts/common/plotting.py).                        *)
(*                                                                         *)
(* Python strings are TLA+ strings; TLC evaluates Len, \o and SubSeq on    *)
(* them, and the str methods the code calls are defined from these.        *)
(***************************************************************************)
EXTENDS Integers, Sequences, FiniteSets, TLC

VARIABLES
    \* ---- request helpers
    helper,      \* which helper is running: "APIUtils" or "Fetcher" ("none": no call)
    req_pc,      \* "call" (next attempt pending) | "returned" | "raised" | "idle"
    attempt,     \* the loop variable of _make_request (0-based)
    history,     \* the outcome of each HTTP attempt made so far
    sleeps,      \* the argument of each time.sleep call so far
    req_result,  \* "unset" | "json" (the decoded body) | "None"
    \* ---- one aggregation: a process_*_distribution method of one network
    net,         \* the network script: "bitcoin", "solana", ...
    kind,        \* "geographic" | "client" | "hosting"
    source,      \* the records of the source (API items, or lines of the raw file)
    data,        \* self.data: what fetch_data stored
    idx,         \* position of the aggregation loop in data (1-based)
    counts,      \* the Counter being filled: rows in first-seen order
    trace,       \* trace[k]: the categories record k of data added 1 to
    table,       \* the DataFrame the method returns
    agg_pc,      \* "fetch" | "loop" | "built" | "raised" | "idle"
    \* ---- persisting the table and rendering the pie chart
    csv,         \* the lines of the CSV file
    frame,       \* the DataFrame read_csv returns
    converted,   \* the frame after the country-name conversion
    slices,      \* filtered_data: the rows drawn as slices (wedges)
    legend,      \* the legend: each label with the wedge it is attached to
    plot_pc,     \* "none" | "saved" | "read" | "plotted"
    \* ---- one run of a network script from the command line
    script,      \* the script run: "bitcoin", "algorand", ...
    mode,        \* "default" | "process_only" | "plot_only"
    response,    \* what the source answers to fetch_data
    fs_fail,     \* which CSV write the file system refuses (0: none)
    plot_fail,   \* which plot fails (0: none)
    self_data,   \* self.data: "None" | "no_nodes" | "ok"
    fetch_ret,   \* what fetch_data returned: "unset" | "True" | "False"
    process_ret, \* what process_data did: "unset" | "True" | "False" | "raised"
    stages,      \* the methods __main__ or run_analysis called, in order
    written,     \* the CSV files written, in order
    plotted,     \* the charts saved, in order
    log,         \* the error messages printed
    cli_pc,      \* "main" | "fetch" | "process" | "render" | "exit" | "raised" | "idle"
    \* ---- one run of the node-count script: main, fetch_all_nodes
    count_pc,    \* "fetch_all" | "done" | "idle"
    pos,         \* position of the loop of fetch_all_nodes in fetchers (1-based)
    called,      \* the fetchers called so far, in order
    last_ret,    \* what the fetcher called last did: None, an int, or raised
    node_counts, \* the dict being filled: entries in insertion order
    page,        \* fetch_cardano_nodes: the page requested next
    all_pools,   \* fetch_cardano_nodes: len(all_pools)
    requested,   \* fetch_cardano_nodes: the page numbers requested, in order
    received,    \* fetch_cardano_nodes: what _make_request returned for each
    saved        \* main: "unset" | "saved" | "io_error" | "skipped"

req_vars == <<helper, req_pc, attempt, history, sleeps, req_result>>

agg_vars == <<net, kind, source, data, idx, counts, trace, table, agg_pc>>

render_vars == <<csv, frame, converted, slices, legend, plot_pc>>

cli_vars == <<script, mode, response, fs_fail, plot_fail, self_data, fetch_ret,
              process_ret, stages, written, plotted, log, cli_pc>>

count_vars == <<count_pc, pos, called, last_ret, node_counts, page, all_pools,
                requested, received, saved>>

vars == <<req_vars, agg_vars, render_vars, cli_vars, count_vars>>

-----------------------------------------------------------------------------
(* Python str methods *)

Char(s, i) == SubSeq(s, i, i)

UpperChars == "ABCDEFGHIJKLMNOPQRSTUVWXYZ"
LowerChars == "abcdefghijklmnopqrstuvwxyz"

LowerChar(c) ==
    IF \E k \in 1..Len(UpperChars) : Char(UpperChars, k) = c
    THEN Char(LowerChars, CHOOSE k \in 1..Len(UpperChars) : Char(UpperChars, k) = c)
    ELSE c

\* str.lower()
RECURSIVE lower(_)
lower(s) == IF s = "" THEN "" ELSE LowerChar(Char(s, 1)) \o lower(SubSeq(s, 2, Len(s)))

\* sub in s
contains(s, sub) ==
    \E i \in 1..(Len(s) - Len(sub) + 1) : SubSeq(s, i, i + Len(sub) - 1) = sub

\* s.startswith(p), s.endswith(p)
startswith(s, p) == Len(p) <= Len(s) /\ SubSeq(s, 1, Len(p)) = p
endswith(s, p) == Len(p) <= Len(s) /\ SubSeq(s, Len(s) - Len(p) + 1, Len(s)) = p

\* s.replace(old, new), old non-empty: leftmost non-overlapping occurrences
RECURSIVE replace(_, _, _)
replace(s, old, new) ==
    IF Len(s) < Len(old) THEN s
    ELSE IF SubSeq(s, 1, Len(old)) = old
         THEN new \o replace(SubSeq(s, Len(old) + 1, Len(s)), old, new)
         ELSE Char(s, 1) \o replace(SubSeq(s, 2, Len(s)), old, new)

\* s.strip(): leading and trailing whitespace removed
RECURSIVE lstrip(_)
lstrip(s) == IF s # "" /\ Char(s, 1) = " " THEN lstrip(SubSeq(s, 2, Len(s))) ELSE s
RECURSIVE rstrip(_)
rstrip(s) == IF s # "" /\ Char(s, Len(s)) = " " THEN rstrip(SubSeq(s, 1, Len(s) - 1)) ELSE s
strip(s) == rstrip(lstrip(s))

\* s.strip(c) for a one-character c
RECURSIVE lstripc(_, _)
lstripc(s, c) == IF s # "" /\ Char(s, 1) = c THEN lstripc(SubSeq(s, 2, Len(s)), c) ELSE s
RECURSIVE rstripc(_, _)
rstripc(s, c) == IF s # "" /\ Char(s, Len(s)) = c THEN rstripc(SubSeq(s, 1, Len(s) - 1), c) ELSE s
stripc(s, c) == rstripc(lstripc(s, c), c)

\* s.split(sep) for a one-character sep: the list of parts
RECURSIVE split(_, _)
split(s, sep) ==
    IF ~contains(s, sep) THEN <<s>>
    ELSE LET i == CHOOSE k \in 1..Len(s) :
                    Char(s, k) = sep /\ \A j \in 1..(k - 1) : Char(s, j) # sep
         IN  <<SubSeq(s, 1, i - 1)>> \o split(SubSeq(s, i + 1, Len(s)), sep)

\* s.split(sep, 1)
split1(s, sep) ==
    IF ~contains(s, sep) THEN <<s>>
    ELSE LET i == CHOOSE k \in 1..Len(s) :
                    Char(s, k) = sep /\ \A j \in 1..(k - 1) : Char(s, j) # sep
         IN  <<SubSeq(s, 1, i - 1), SubSeq(s, i + 1, Len(s))>>

-----------------------------------------------------------------------------
(* The request helpers: APIUtils.make_request and                          *)
(* BlockchainNodesFetcher._make_request                                    *)

\* What one HTTP attempt can do: deliver a body that decodes ("ok"), or raise.
\* requests.request raises ConnectionError or Timeout on a transport error,
\* raise_for_status raises HTTPError, and response.json() raises, on a
\* malformed body, requests.exceptions.JSONDecodeError (requests >= 2.27) or
\* the standard library's json.JSONDecodeError (older requests).
Exceptions == {"ConnectionError", "Timeout", "HTTPError",
               "requests.JSONDecodeError", "json.JSONDecodeError"}
Outcomes == {"ok"} \cup Exceptions

\* isinstance(exc, requests.RequestException)
IsRequestException(exc) ==
    exc \in {"ConnectionError", "Timeout", "HTTPError", "requests.JSONDecodeError"}

\* isinstance(exc, json.JSONDecodeError)
IsJSONDecodeError(exc) ==
    exc \in {"requests.JSONDecodeError", "json.JSONDecodeError"}

\* retries = 3
retries == 3

\* time.sleep(1 * (attempt + 1))
Backoff_Constant(a) == 1
Backoff(a) == 1 * (a + 1)

\* the except clauses of _make_request, in order
FetcherCatches_NoJson(exc) == IsRequestException(exc)
FetcherCatches(exc) == IsRequestException(exc) \/ IsJSONDecodeError(exc)

\* the except clauses of APIUtils.make_request: RequestException, then Exception
ApiCatches(exc) == IsRequestException(exc) \/ exc \in Exceptions

\* no aggregation is running
AggIdle ==
    /\ net = "none" /\ kind = "none" /\ source = <<>> /\ data = <<>> /\ idx = 1
    /\ counts = <<>> /\ trace = <<>> /\ table = <<>> /\ agg_pc = "idle"

\* nothing persisted or rendered
RenderIdle ==
    /\ csv = <<>> /\ frame = <<>> /\ converted = <<>>
    /\ slices = <<>> /\ legend = <<>> /\ plot_pc = "none"

\* no script is running
CliIdle ==
    /\ script = "none" /\ mode = "none" /\ response = "None"
    /\ fs_fail = 0 /\ plot_fail = 0 /\ self_data = "None"
    /\ fetch_ret = "unset" /\ process_ret = "unset" /\ stages = <<>>
    /\ written = <<>> /\ plotted = <<>> /\ log = <<>> /\ cli_pc = "idle"

\* the node-count script is not running
CountIdle ==
    /\ count_pc = "idle" /\ pos = 1 /\ called = <<>>
    /\ last_ret = [tag |-> "unset", n |-> 0] /\ node_counts = <<>>
    /\ page = 1 /\ all_pools = 0 /\ requested = <<>> /\ received = <<>>
    /\ saved = "unset"

ReqInit ==
    /\ AggIdle
    /\ RenderIdle
    /\ CliIdle
    /\ CountIdle
    /\ helper \in {"APIUtils", "Fetcher"}
    /\ req_pc = "call"
    /\ attempt = 0
    /\ history = <<>>
    /\ sleeps = <<>>
    /\ req_result = "unset"

\* APIUtils.make_request: one attempt, every exception becomes None
ApiMakeRequest ==
    /\ helper = "APIUtils"
    /\ req_pc = "call"
    /\ \E o \in Outcomes :
        /\ history' = Append(history, o)
        /\ IF o = "ok"
           THEN req_pc' = "returned" /\ req_result' = "json"
           ELSE IF ApiCatches(o)
                THEN req_pc' = "returned" /\ req_result' = "None"
                ELSE req_pc' = "raised" /\ req_result' = "unset"
    /\ UNCHANGED <<helper, attempt, sleeps>>
    /\ UNCHANGED <<agg_vars, render_vars, cli_vars, count_vars>>

\* One iteration of the loop of _make_request: the attempt and its handler
FetcherAttempt ==
    /\ helper = "Fetcher"
    /\ req_pc = "call"
    /\ attempt < retries
    /\ \E o \in Outcomes :
        /\ history' = Append(history, o)
        /\ IF o = "ok"
           THEN /\ req_pc' = "returned" /\ req_result' = "json"
                /\ UNCHANGED <<attempt, sleeps>>
           ELSE IF ~FetcherCatches(o)
           THEN /\ req_pc' = "raised" /\ req_result' = "unset"
                /\ UNCHANGED <<attempt, sleeps>>
           ELSE IF IsRequestException(o)
           THEN IF attempt = retries - 1
                THEN /\ req_pc' = "returned" /\ req_result' = "None"
                     /\ UNCHANGED <<attempt, sleeps>>
                ELSE /\ sleeps' = Append(sleeps, Backoff(attempt))
                     /\ attempt' = attempt + 1
                     /\ UNCHANGED <<req_pc, req_result>>
           ELSE /\ req_pc' = "returned" /\ req_result' = "None"
                /\ UNCHANGED <<attempt, sleeps>>
    /\ UNCHANGED helper
    /\ UNCHANGED <<agg_vars, render_vars, cli_vars, count_vars>>

ReqIdle ==
    /\ helper = "none" /\ req_pc = "idle" /\ attempt = 0
    /\ history = <<>> /\ sleeps = <<>> /\ req_result = "unset"

ReqNext == ApiMakeRequest \/ FetcherAttempt

-----------------------------------------------------------------------------
(* Numbers in strings *)

Digits == "0123456789"

IsDigits(s) ==
    /\ s # ""
    /\ \A i \in 1..Len(s) : \E d \in 1..Len(Digits) : Char(s, i) = Char(Digits, d)

DigitVal(c) == (CHOOSE d \in 1..Len(Digits) : Char(Digits, d) = c) - 1

\* int(s) for a string of decimal digits
RECURSIVE StrToInt(_)
StrToInt(s) ==
    IF Len(s) = 1 THEN DigitVal(s)
    ELSE 10 * StrToInt(SubSeq(s, 1, Len(s) - 1)) + DigitVal(Char(s, Len(s)))

\* str(n) for n >= 0
RECURSIVE IntToStr(_)
IntToStr(n) ==
    IF n < 10 THEN Char(Digits, n + 1)
    ELSE IntToStr(n \div 10) \o Char(Digits, (n % 10) + 1)

RECURSIVE SumSeq(_)
SumSeq(q) == IF q = <<>> THEN 0 ELSE Head(q) + SumSeq(Tail(q))

-----------------------------------------------------------------------------
(* IP addresses and the GeoLite2-ASN database *)

\* _is_valid_ip: four dot-separated parts, each an int in 0..255 (int() of a
\* part that is not a decimal number raises ValueError: not valid)
_is_valid_ip(ip) ==
    LET parts == split(ip, ".")
    IN  /\ Len(parts) = 4
        /\ \A k \in 1..4 : IsDigits(parts[k]) /\ StrToInt(parts[k]) <= 255

\* socket.inet_aton(ip) succeeds: one to four dot-separated decimal numbers,
\* every one but the last at most 255
inet_aton_ok(ip) ==
    LET parts == split(ip, ".")
    IN  /\ Len(parts) <= 4
        /\ \A k \in 1..Len(parts) : IsDigits(parts[k])
        /\ \A k \in 1..(Len(parts) - 1) : StrToInt(parts[k]) <= 255
        /\ Len(parts) = 4 => StrToInt(parts[4]) <= 255

\* The content of data/GeoLite2-ASN.mmdb: the autonomous_system_organization
\* of each address the database knows ("" when the entry has none).  The
\* addresses 10.0.0.k carry, as organization, the canonical provider names
\* (the keys) of the known_providers tables.
CanonicalNames == <<
    "OVH", "Hetzner", "DigitalOcean", "Amazon AWS", "Amazon", "Google Cloud", "Google",
    "Microsoft Azure", "Vultr", "Linode", "Equinix", "Alibaba", "Netcup", "Contabo" >>

CanonicalIp(k) == "10.0.0." \o IntToStr(k)

AsnDb ==
    ( "5.9.0.1"   :> "Hetzner Online GmbH"
   @@ "3.0.0.1"   :> "AMAZON-02"
   @@ "8.8.8.8"   :> "Google LLC"
   @@ "1.1.1.1"   :> "Cloudflare, Inc."
   @@ "73.0.0.1"  :> "Comcast Home Telecom"
   @@ "9.9.9.9"   :> "Stake Pool Hosting Ltd."
   @@ "7.7.7.7"   :> ""
   @@ "45.0.0.1"  :> "Linode on Microsoft Azure"
   @@ "46.0.0.1"  :> "Google Home Stake Pool" )
   @@ [ip \in {CanonicalIp(k) : k \in 1..Len(CanonicalNames)} |->
         CanonicalNames[CHOOSE k \in 1..Len(CanonicalNames) : CanonicalIp(k) = ip]]

\* reader.asn(ip) raises (ValueError for a malformed address,
\* AddressNotFoundError for one the database does not hold)
AsnRaises(ip) == ip \notin DOMAIN AsnDb

\* reader.asn(ip).autonomous_system_organization
AsnOrg(ip) == AsnDb[ip]

-----------------------------------------------------------------------------
(* Hosting classification *)

\* the suffix stripping of ethereum.py and polkadot.py
StripSuffixes5(org) ==
    strip(replace(replace(replace(replace(replace(org,
        " LLC", ""), " Ltd.", ""), " Inc.", ""), " Corporation", ""), " Corp.", ""))

\* the suffix stripping of bitcoin_cash.py (no ' Corp.')
StripSuffixesBch(org) ==
    strip(replace(replace(replace(replace(replace(replace(org,
        " LLC", ""), " Ltd.", ""), " Inc.", ""), " Corporation", ""), " SA", ""), " AG", ""))

\* the suffix stripping of solana, stellar, cardano, dogecoin, litecoin
StripSuffixes7(org) ==
    strip(replace(replace(replace(replace(replace(replace(replace(org,
        " LLC", ""), " Ltd.", ""), " Inc.", ""), " Corporation", ""), " Corp.", ""),
        " SA", ""), " AG", ""))

known_providers_solana == <<
    [provider |-> "OVH", variations |-> <<"OVH", "OVH SAS", "OVH Hosting">>],
    [provider |-> "Hetzner", variations |-> <<"Hetzner", "Hetzner Online", "Hetzner Online GmbH", "HETZNER">>],
    [provider |-> "DigitalOcean", variations |-> <<"DIGITALOCEAN", "DigitalOcean", "DIGITALOCEAN-ASN", "DIGITALOCEAN-N">>],
    [provider |-> "Amazon AWS", variations |-> <<"Amazon", "Amazon.com", "AWS", "AMAZON-AES", "AMAZON-02", "AMAZON-", "Amazon Technologies", "AMAZON">>],
    [provider |-> "Google Cloud", variations |-> <<"Google", "Google Cloud", "GOOGLE", "GCP", "Google LLC">>],
    [provider |-> "Microsoft Azure", variations |-> <<"Microsoft", "Azure", "Microsoft Corporation", "MICROSOFT-CORP", "MICROSOFT">>],
    [provider |-> "Vultr", variations |-> <<"Vultr", "Vultr Holdings", "VULTR-AS", "AS-VULTR">>],
    [provider |-> "Linode", variations |-> <<"Linode", "LINODE-AP", "LINODE", "Linode LLC">>],
    [provider |-> "Equinix", variations |-> <<"Equinix", "EQUINIX", "PACKET", "Packet Host">>],
    [provider |-> "Alibaba", variations |-> <<"Alibaba", "ALIBABA", "Aliyun">>]
>>

\* stellar.py holds the same table as solana.py
known_providers_stellar == known_providers_solana

known_providers_cardano == <<
    [provider |-> "OVH", variations |-> <<"OVH", "OVH SAS", "OVH Hosting">>],
    [provider |-> "Hetzner", variations |-> <<"Hetzner", "Hetzner Online", "Hetzner Online GmbH", "HETZNER">>],
    [provider |-> "DigitalOcean", variations |-> <<"DIGITALOCEAN", "DigitalOcean", "DIGITALOCEAN-ASN", "DIGITALOCEAN-N">>],
    [provider |-> "Amazon", variations |-> <<"Amazon", "Amazon.com", "AWS", "Amazon AWS", "AMAZON-AES", "AMAZON-02">>],
    [provider |-> "Google", variations |-> <<"Google", "Google Cloud", "GOOGLE", "GCP", "Google LLC">>],
    [provider |-> "Microsoft Azure", variations |-> <<"Microsoft", "Azure", "Microsoft Corporation", "MICROSOFT-CORP">>],
    [provider |-> "Linode", variations |-> <<"Linode", "LINODE-AP", "LINODE", "Linode LLC">>],
    [provider |-> "Netcup", variations |-> <<"netcup", "netcup GmbH">>],
    [provider |-> "Vultr", variations |-> <<"Vultr", "Vultr Holdings", "VULTR-AS">>],
    [provider |-> "Contabo", variations |-> <<"Contabo", "Contabo GmbH", "CONTABO">>]
>>

\* dogecoin.py holds the same table as cardano.py
known_providers_dogecoin == known_providers_cardano

known_providers_litecoin == <<
    [provider |-> "OVH", variations |-> <<"OVH", "OVH SAS", "OVH Hosting">>],
    [provider |-> "Hetzner", variations |-> <<"Hetzner", "Hetzner Online", "Hetzner Online GmbH", "HETZNER">>],
    [provider |-> "DigitalOcean", variations |-> <<"DIGITALOCEAN", "DigitalOcean", "DIGITALOCEAN-ASN", "DIGITALOCEAN-N">>],
    [provider |-> "Amazon AWS", variations |-> <<"Amazon", "Amazon.com", "AWS", "AMAZON-AES", "AMAZON-02", "AMAZON-", "Amazon Technologies">>],
    [provider |-> "Google Cloud", variations |-> <<"Google", "Google Cloud", "GOOGLE", "GCP", "Google LLC">>],
    [provider |-> "Microsoft Azure", variations |-> <<"Microsoft", "Azure", "Microsoft Corporation", "MICROSOFT-CORP">>],
    [provider |-> "Linode", variations |-> <<"Linode", "LINODE-AP", "LINODE", "Linode LLC">>],
    [provider |-> "Vultr", variations |-> <<"Vultr", "Vultr Holdings", "VULTR-AS">>],
    [provider |-> "Contabo", variations |-> <<"Contabo", "Contabo GmbH", "CONTABO">>]
>>

\* the exclusion keywords applied to unmatched organizations
exclusions_solana == <<"residential", "university", "college", "school", "home", "telecom">>
exclusions_stellar == <<"residential", "university", "college", "school", "home", "telecom">>
exclusions_litecoin == <<"residential", "university", "college", "school", "home", "telecom">>
exclusions_cardano == <<"relay", "pool", "stake", "r1", "r2", "mainnet">>
exclusions_dogecoin == <<"relay", "pool", "stake">>

HostingNets == {"solana", "stellar", "cardano", "dogecoin", "litecoin"}

known_providers(n) ==
    CASE n = "solana" -> known_providers_solana
      [] n = "stellar" -> known_providers_stellar
      [] n = "cardano" -> known_providers_cardano
      [] n = "dogecoin" -> known_providers_dogecoin
      [] n = "litecoin" -> known_providers_litecoin

exclusions(n) ==
    CASE n = "solana" -> exclusions_solana
      [] n = "stellar" -> exclusions_stellar
      [] n = "cardano" -> exclusions_cardano
      [] n = "dogecoin" -> exclusions_dogecoin
      [] n = "litecoin" -> exclusions_litecoin

\* any(variation.lower() in org.lower() for variation in variations)
Matches_CaseSensitive(p, org) ==
    \E v \in 1..Len(p.variations) : contains(org, p.variations[v])
Matches(p, org) ==
    \E v \in 1..Len(p.variations) : contains(lower(org), lower(p.variations[v]))

\* the for/break loop over known_providers.items() and the exclusion test:
\* whether a provider matched, whether the organization (already
\* suffix-stripped) is counted at all, and under which category
Classify_LastWins(n, org) ==
    LET kp == known_providers(n)
        hits == {k \in 1..Len(kp) : Matches(kp[k], org)}
    IN  IF hits # {}
        THEN [matched |-> TRUE, counted |-> TRUE,
              category |-> kp[CHOOSE k \in hits : \A j \in hits : k >= j].provider]
        ELSE IF \E x \in 1..Len(exclusions(n)) : contains(lower(org), exclusions(n)[x])
             THEN [matched |-> FALSE, counted |-> FALSE, category |-> org]
             ELSE [matched |-> FALSE, counted |-> TRUE, category |-> org]
Classify_ExcludeFirst(n, org) ==
    LET kp == known_providers(n)
        hits == {k \in 1..Len(kp) : Matches(kp[k], org)}
    IN  IF \E x \in 1..Len(exclusions(n)) : contains(lower(org), exclusions(n)[x])
        THEN [matched |-> hits # {}, counted |-> FALSE, category |-> org]
        ELSE IF hits # {}
             THEN [matched |-> TRUE, counted |-> TRUE,
                   category |-> kp[CHOOSE k \in hits : \A j \in hits : k <= j].provider]
             ELSE [matched |-> FALSE, counted |-> TRUE, category |-> org]
Classify(n, org) ==
    LET kp == known_providers(n)
        hits == {k \in 1..Len(kp) : Matches(kp[k], org)}
    IN  IF hits # {}
        THEN [matched |-> TRUE, counted |-> TRUE,
              category |-> kp[CHOOSE k \in hits : \A j \in hits : k <= j].provider]
        ELSE IF \E x \in 1..Len(exclusions(n)) : contains(lower(org), exclusions(n)[x])
             THEN [matched |-> FALSE, counted |-> FALSE, category |-> org]
             ELSE [matched |-> FALSE, counted |-> TRUE, category |-> org]

MatchProvider(n, org) ==
    IF Classify(n, org).counted THEN <<Classify(n, org).category>> ELSE <<>>

\* response = reader.asn(ip); org = ...; if org: strip, match, count
\* (a raise inside is caught by the per-record except: continue)
HostingLabels_Unknown(n, ip) ==
    IF AsnRaises(ip) THEN <<"Unknown">>
    ELSE IF AsnOrg(ip) = "" THEN <<>>
    ELSE MatchProvider(n, StripSuffixes7(AsnOrg(ip)))
HostingLabels(n, ip) ==
    IF AsnRaises(ip) THEN <<>>
    ELSE IF AsnOrg(ip) = "" THEN <<>>
    ELSE MatchProvider(n, StripSuffixes7(AsnOrg(ip)))
-----------------------------------------------------------------------------
(* The Counter and the DataFrame *)

\* rows: a sequence of [Category, Count]; a Counter keeps first-seen order
HasCategory(rows, c) == \E i \in 1..Len(rows) : rows[i].Category = c

\* counter[c] += 1
CounterAdd(rows, c) ==
    IF HasCategory(rows, c)
    THEN [i \in 1..Len(rows) |->
            IF rows[i].Category = c
            THEN [Category |-> c, Count |-> rows[i].Count + 1] ELSE rows[i]]
    ELSE Append(rows, [Category |-> c, Count |-> 1])

RECURSIVE CounterAddAll(_, _)
CounterAddAll(rows, labels) ==
    IF labels = <<>> THEN rows
    ELSE CounterAddAll(CounterAdd(rows, Head(labels)), Tail(labels))

\* df['Count'].sum()
SumCounts(rows) == SumSeq([i \in 1..Len(rows) |-> rows[i].Count])

\* insert a row into a sequence sorted by Count descending, after its equals
RECURSIVE InsertDesc(_, _)
InsertDesc(sorted, r) ==
    IF sorted = <<>> THEN <<r>>
    ELSE IF Head(sorted).Count >= r.Count
         THEN <<Head(sorted)>> \o InsertDesc(Tail(sorted), r)
         ELSE <<r>> \o sorted

\* df.sort_values(by='Count', ascending=False); rows of equal Count are kept
\* in their first-seen order (no claim here reads the order of ties)
RECURSIVE sort_values(_)
sort_values(rows) ==
    IF rows = <<>> THEN <<>>
    ELSE InsertDesc(sort_values(SubSeq(rows, 1, Len(rows) - 1)), rows[Len(rows)])

\* round(n / d) to the nearest integer, halves to the even one (numpy round)
RoundHalfEven(n, d) ==
    LET q == n \div d
        r == n % d
    IN  IF 2 * r < d THEN q
        ELSE IF 2 * r > d THEN q + 1
        ELSE IF q % 2 = 0 THEN q ELSE q + 1

\* (df['Count'] / total * 100).round(2), in hundredths of a percent
Percentage2(count, total) == RoundHalfEven(10000 * count, total)

\* df[df['Count'] > n], the minimum-count threshold
ThresholdAtLeast(rows, n) == LET Keep(r) == r.Count >= n IN SelectSeq(rows, Keep)
Threshold(rows, n) == LET Keep(r) == r.Count > n IN SelectSeq(rows, Keep)

-----------------------------------------------------------------------------
(* The records of each source *)

\* bitcoin: self.data['nodes'] values; node_info[1] is the version string,
\* node_info[7] the country code ("" stands for None)
BitcoinSatoshi == [version |-> "/Satoshi:25.0.0/", country |-> "US"]
BitcoinBtcd == [version |-> "/btcwire:0.5.0/btcd:0.23.3/", country |-> "NA"]
BitcoinBcoin == [version |-> "/bcoin:2.2.0/", country |-> "DE"]
\* a node_info list that ends before index 7: it has a version and no country
BitcoinShort == [version |-> "/Satoshi:24.0.1/"]
BitcoinNodes == {
    BitcoinSatoshi, BitcoinBtcd, BitcoinShort,
    [version |-> "/Satoshi:26.0.0/Knots:20231115/", country |-> ""],
    [version |-> "/Bitcoin ABC:0.21.0/", country |-> "TOR"],
    [version |-> "", country |-> "null"] }

\* ethereum, polkadot: the lines of the nebula JSON file.  text: "json" (a
\* JSON object), "blank", "bad" (json.loads raises); has_maddrs: Maddrs is
\* not null
NebulaLines == {
    [text |-> "json", has_maddrs |-> TRUE, maddrs |-> <<"/ip4/5.9.0.1/tcp/30303">>],
    [text |-> "json", has_maddrs |-> TRUE,
     maddrs |-> <<"/ip4/5.9.0.1/tcp/30303", "/ip4/3.0.0.1/udp/30303">>],
    [text |-> "json", has_maddrs |-> TRUE,
     maddrs |-> <<"/ip4/8.8.8.8/tcp/1", "/ip4/8.8.8.8/udp/1", "/ip6/::1/tcp/1">>],
    [text |-> "json", has_maddrs |-> TRUE,
     maddrs |-> <<"/ip4/999.1.1.1/tcp/1", "/dns4/example.org/tcp/1">>],
    [text |-> "json", has_maddrs |-> FALSE, maddrs |-> <<>>],
    [text |-> "bad", has_maddrs |-> FALSE, maddrs |-> <<>>] }

\* ethereum_classic: the peers; ip_info may be missing, org may be missing
EtcNode(o) == [has_ip_info |-> TRUE, has_org |-> TRUE, org |-> o]
EtcNodes == {
    EtcNode("AS24940 Hetzner Online GmbH"),
    EtcNode("AS16509 Amazon.com, Inc."),
    EtcNode("Hetzner"),
    EtcNode(""),
    [has_ip_info |-> FALSE, has_org |-> FALSE, org |-> ""] }

\* tezos: the items of data['heatmap']
TezosItem(c, n) == [has_countryCode |-> TRUE, countryCode |-> c, has_count |-> TRUE, count |-> n]
TezosItems == {
    TezosItem("US", 197), TezosItem("DE", 35), TezosItem("FR", 3), TezosItem("AR", 1),
    TezosItem("NA", 2),
    [has_countryCode |-> TRUE, countryCode |-> "NL", has_count |-> FALSE, count |-> 0] }

\* solana: the getClusterNodes result; gossip is "ip:port" ("": no gossip)
SolanaNode(g) == [gossip |-> g]
SolanaNodes == {
    SolanaNode("5.9.0.1:8001"), SolanaNode("3.0.0.1:8001"), SolanaNode("73.0.0.1:8001"),
    SolanaNode("1.1.1.1:8001"), SolanaNode("203.0.113.9:8001"), SolanaNode(""),
    SolanaNode("45.0.0.1:8001"), SolanaNode("46.0.0.1:8001") }

\* stellar: the nodes; ip or geoData.ip ("": absent)
StellarNode(a, i, g) == [active |-> a, ip |-> i, geo_ip |-> g]
StellarNodes == {
    StellarNode(TRUE, "5.9.0.1", ""), StellarNode(FALSE, "3.0.0.1", ""),
    StellarNode(TRUE, "", "8.8.8.8"), StellarNode(TRUE, "", ""),
    StellarNode(TRUE, "73.0.0.1", ""), StellarNode(TRUE, "46.0.0.1", "") }

\* cardano: the relays of every pool; ipv4, ipv6 ("": null)
CardanoRelay(a, b) == [ipv4 |-> a, ipv6 |-> b]
CardanoRelays == {
    CardanoRelay("5.9.0.1", ""), CardanoRelay("", "[2001:db8::1]"),
    CardanoRelay("9.9.9.9", ""), CardanoRelay("1.1.1.1", ""), CardanoRelay("", ""),
    CardanoRelay("45.0.0.1", ""), CardanoRelay("46.0.0.1", "") }

\* dogecoin, litecoin, bitcoin_cash: the items of data['data']['nodes'], a
\* dict keyed by "ip:port"
ChairNode(k, v, h) == [key |-> k, version |-> v, height |-> h, has_ip |-> FALSE, ip |-> ""]
DogecoinNodes == {
    ChairNode("5.9.0.1:22556", "/Shibetoshi:1.14.6/", 100),
    ChairNode("10.0.0.2:22556", "/Shibetoshi:1.14.6/", 100),
    ChairNode("3.0.0.1:22556", "/Shibetoshi:1.14.6/", 0),
    ChairNode("8.8.8.8:22556", "/Other:1.0/", 5),
    ChairNode("9.9.9.9:22556", "/Shibetoshi:1.14.5/", 7),
    ChairNode("45.0.0.1:22556", "/Shibetoshi:1.14.6/", 100) }
LitecoinNodes == {
    ChairNode("5.9.0.1:9333", "/LitecoinCore:0.21.2/", 100),
    ChairNode("10.0.0.2:9333", "/LitecoinCore:0.21.2/", 100),
    ChairNode("3.0.0.1:9333", "/LitecoinCore:0.21.2/", 0),
    ChairNode("8.8.8.8:9333", "/Satoshi:0.16.3/", 5),
    ChairNode("73.0.0.1:9333", "/LitecoinCore:0.18.1/", 7) }
BitcoinCashNodes == {
    ChairNode("5.9.0.1:8333", "/Bitcoin Cash Node:27.0.0/", 100),
    ChairNode("10.0.0.2:8333", "/Bitcoin Cash Node:27.0.0/", 100),
    ChairNode("3.0.0.1:8333", "/Bitcoin Cash Node:27.0.0/", 0),
    ChairNode("[2001:db8::1]:8333", "/BCH Unlimited:2.0.0/", 5),
    [key |-> "bchn-1", version |-> "/Bitcoin Cash Node:26.0.0/", height |-> 7,
     has_ip |-> TRUE, ip |-> "1.1.1.1"] }

\* near: the active_peers of the network_info result; addr is "ip:port"
\* ("": the peer has no addr)
NearPeer(a) == [addr |-> a]
NearPeers == {
    NearPeer("5.9.0.1:24567"), NearPeer("3.0.0.1:24567"),
    NearPeer("203.0.113.9:24567"), NearPeer("7.7.7.7:24567"), NearPeer("") }

\* ripple: the peers of the crawl; address is "ip:port" or "[::ffff:ip]:port"
RipplePeer(a) == [address |-> a]
RipplePeers == {
    RipplePeer("5.9.0.1:51235"), RipplePeer("8.8.8.8:51235"),
    RipplePeer("198.51.100.7:51235"), RipplePeer("[::ffff:3.0.0.1]:51235"),
    RipplePeer("") }

\* polygon: the nodes of the crawl file; client is the client string
\* ("": absent)
PolygonNodes == {
    [client |-> "bor/v1.3.7/linux-amd64/go1.21.6"], [client |-> "reth /v0.2.0"],
    [client |-> "BOR/v1.0.0"], [client |-> "Geth/v1.13.5/linux-amd64"],
    [client |-> ""] }

\* ethereum: the rows of the nodes table of the crawler database, read for
\* the client distribution; name is the client string
EthereumRows == {
    [name |-> "Geth/v1.13.5-stable/linux-amd64/go1.21.4"], [name |-> "go-ethereum/v1.12.0"],
    [name |-> "erigon/v2.55.1/linux-amd64"], [name |-> "Nethermind/v1.20.3"],
    [name |-> "anvil/v0.2.0"], [name |-> "reth/v0.1.0-alpha"] }

\* the networks whose records are the items of a dict (one per key), or
\* one item per country
KeyedNets == {"dogecoin", "litecoin", "bitcoin_cash", "tezos"}

RecordKey(n, rec) == IF n = "tezos" THEN rec.countryCode ELSE rec.key

\* the (network, distribution) pairs modelled
Pipelines == {
    <<"bitcoin", "geographic">>, <<"bitcoin", "client">>,
    <<"ethereum", "hosting">>, <<"polkadot", "hosting">>,
    <<"ethereum_classic", "hosting">>, <<"tezos", "geographic">>,
    <<"solana", "hosting">>, <<"stellar", "hosting">>, <<"cardano", "hosting">>,
    <<"dogecoin", "hosting">>, <<"litecoin", "hosting">>, <<"bitcoin_cash", "hosting">>,
    <<"near", "hosting">>, <<"ripple", "hosting">>,
    <<"litecoin", "client">>, <<"polygon", "client">>, <<"ethereum", "client">> }

Records(n) ==
    CASE n = "bitcoin" -> BitcoinNodes
      [] n \in {"ethereum", "polkadot"} -> NebulaLines
      [] n = "ethereum_classic" -> EtcNodes
      [] n = "tezos" -> TezosItems
      [] n = "solana" -> SolanaNodes
      [] n = "stellar" -> StellarNodes
      [] n = "cardano" -> CardanoRelays
      [] n = "dogecoin" -> DogecoinNodes
      [] n = "litecoin" -> LitecoinNodes
      [] n = "bitcoin_cash" -> BitcoinCashNodes
      [] n = "near" -> NearPeers
      [] n = "ripple" -> RipplePeers
      [] n = "polygon" -> PolygonNodes

\* the longest source drawn from all sequences over Records(n)
MaxRecords == 2

ShortSources(n) ==
    LET all == UNION {[1..m -> Records(n)] : m \in 0..MaxRecords}
    IN  IF n \in KeyedNets
        THEN {q \in all : \A i, j \in 1..Len(q) :
                 RecordKey(n, q[i]) = RecordKey(n, q[j]) => i = j}
        ELSE all

\* the node whose address the ASN database maps to canonical provider name k
CanonicalNode(n, k) ==
    LET ip == CanonicalIp(k)
    IN  CASE n = "solana" -> SolanaNode(ip \o ":8001")
          [] n = "stellar" -> StellarNode(TRUE, ip, "")
          [] n = "cardano" -> CardanoRelay(ip, "")
          [] n = "dogecoin" -> ChairNode(ip \o ":22556", "/Shibetoshi:1.14.6/", 100)
          [] n = "litecoin" -> ChairNode(ip \o ":9333", "/LitecoinCore:0.21.2/", 100)

\* Longer sources, one of each shape:
\*   bitcoin: 10 Bitcoin Core, 5 btcd, 1 bcoin (counts 10, 5, 1)
\*   ethereum_classic: 14 peers of one organization and 17 organizations of
\*     one peer each (31 peers: every single peer is below 3.3%)
\*   solana, stellar: 3 peers of one provider, 2 of another, 1 of a third
\*   the hosting networks: one peer for every canonical provider name
\*   tezos: countries of 60, 35, 5 nodes; two countries of 1% each; "NA";
\*     a heatmap list that holds one country twice
LongSources(n) ==
    CASE n = "bitcoin" ->
            {[i \in 1..16 |-> IF i <= 10 THEN BitcoinSatoshi
                              ELSE IF i <= 15 THEN BitcoinBtcd ELSE BitcoinBcoin]}
      [] n = "ethereum_classic" ->
            {[i \in 1..31 |-> IF i <= 14 THEN EtcNode("AS24940 Hetzner Online GmbH")
                              ELSE EtcNode("AS" \o IntToStr(i) \o " Provider " \o IntToStr(i))]}
      [] n = "solana" ->
            {[i \in 1..6 |-> IF i <= 3 THEN SolanaNode("5.9.0.1:8001")
                             ELSE IF i <= 5 THEN SolanaNode("3.0.0.1:8001")
                             ELSE SolanaNode("1.1.1.1:8001")],
             [i \in 1..Len(CanonicalNames) |-> CanonicalNode(n, i)]}
      [] n = "stellar" ->
            {[i \in 1..6 |-> IF i <= 3 THEN StellarNode(TRUE, "5.9.0.1", "")
                             ELSE IF i <= 5 THEN StellarNode(TRUE, "", "3.0.0.1")
                             ELSE StellarNode(TRUE, "1.1.1.1", "")],
             [i \in 1..Len(CanonicalNames) |-> CanonicalNode(n, i)]}
      [] n \in {"cardano", "dogecoin", "litecoin"} ->
            {[i \in 1..Len(CanonicalNames) |-> CanonicalNode(n, i)]}
      [] n = "tezos" ->
            {<<TezosItem("US", 60), TezosItem("DE", 35), TezosItem("FR", 5)>>,
             <<TezosItem("AR", 1), TezosItem("US", 98), TezosItem("BO", 1)>>,
             <<TezosItem("US", 98), TezosItem("NA", 2)>>,
             <<TezosItem("US", 60), TezosItem("DE", 30), TezosItem("US", 10)>>}
      [] OTHER -> {}

Sources(n) == ShortSources(n) \cup LongSources(n)

\* the sources of one aggregation: the client distribution of ethereum reads
\* the database rows, every other aggregation the records of its network
SourcesOf(n, k) ==
    IF n = "ethereum" /\ k = "client"
    THEN UNION {[1..m -> EthereumRows] : m \in 0..MaxRecords}
    ELSE Sources(n)

-----------------------------------------------------------------------------
(* What one record adds to the Counter, per network *)

RECURSIVE Flatten(_)
Flatten(qq) == IF qq = <<>> THEN <<>> ELSE Head(qq) \o Flatten(Tail(qq))

\* list(set(ips)): every address once (the first-occurrence order stands for
\* the arbitrary order of a set; it only decides the order of tied rows)
RECURSIVE Dedup(_)
Dedup(q) ==
    IF q = <<>> THEN <<>>
    ELSE LET r == Dedup(SubSeq(q, 1, Len(q) - 1))
         IN  IF \E i \in 1..Len(r) : r[i] = q[Len(q)] THEN r ELSE Append(r, q[Len(q)])

\* the inner loop of _extract_ips over the parts of one multiaddress
AddrIps(addr) ==
    LET parts == split(addr, "/")
        Hit(i) == parts[i] = "ip4" /\ i < Len(parts) /\ _is_valid_ip(parts[i + 1])
    IN  Flatten([i \in 1..Len(parts) |-> IF Hit(i) THEN <<parts[i + 1]>> ELSE <<>>])

_extract_ips(maddrs) ==
    Dedup(Flatten([k \in 1..Len(maddrs) |-> AddrIps(maddrs[k])]))

\* one line of the nebula file: skipped when blank, when json.loads raises,
\* when Maddrs is null; otherwise its distinct valid IPv4 addresses
LineIps(line) ==
    IF line.text # "json" THEN <<>>
    ELSE IF ~line.has_maddrs THEN <<>>
    ELSE _extract_ips(line.maddrs)

\* response = reader.asn(ip); if org: hosting_counts[stripped org] += 1
IpOrgLabels(ip) ==
    IF AsnRaises(ip) THEN <<>>
    ELSE IF AsnOrg(ip) = "" THEN <<>>
    ELSE <<StripSuffixes5(AsnOrg(ip))>>

\* ethereum.py: for ip in ips: ... hosting_counts[org] += 1
EthereumHostingLabels(line) ==
    LET ips == LineIps(line)
    IN  Flatten([k \in 1..Len(ips) |-> IpOrgLabels(ips[k])])

\* polkadot.py fetch_data: one node per address of every line
PolkadotFetch(lines) ==
    Flatten([k \in 1..Len(lines) |->
                LET ips == LineIps(lines[k])
                IN  [j \in 1..Len(ips) |-> [ip |-> ips[j]]]])

PolkadotHostingLabels(node) == IF node.ip = "" THEN <<>> ELSE IpOrgLabels(node.ip)

valid_clients ==
    ( "Satoshi" :> "Bitcoin Core" @@ "btcwire" :> "btcd"
   @@ "bcoin" :> "bcoin" @@ "libbitcoin" :> "libbitcoin" )

\* (the list also holds one non-ASCII keyword; no version string of the
\* model contains it)
invalid_keywords ==
    <<"BTF", "CKCoinD", "Aurum", "Statoshi", "Ladybug",
      "Classic", "ABC", "Unlimited", "Natasha">>

BitcoinClientLabels(node) ==
    LET version_clean == stripc(node.version, "/")
        parts == split(version_clean, ":")
    IN  IF node.version = "" THEN <<>>
        ELSE IF contains(version_clean, "Knots") THEN <<"Bitcoin Knots">>
        ELSE IF Len(parts) < 2 THEN <<>>
        ELSE IF \E k \in 1..Len(invalid_keywords) : contains(version_clean, invalid_keywords[k])
             THEN <<>>
        ELSE IF parts[1] \in DOMAIN valid_clients THEN <<valid_clients[parts[1]]>>
        ELSE <<>>

BitcoinGeographicLabels(node) ==
    IF node.country # "" /\ node.country # "null" /\ node.country # "TOR"
    THEN <<node.country>> ELSE <<>>

EtcHostingLabels(node) ==
    IF node.has_ip_info /\ node.has_org
    THEN IF node.org # ""
         THEN <<IF contains(node.org, " ") THEN split1(node.org, " ")[2] ELSE node.org>>
         ELSE <<>>
    ELSE <<"Unknown">>

SolanaHostingLabels(node) ==
    LET ip == split(node.gossip, ":")[1]
    IN  IF ~inet_aton_ok(ip) THEN <<>> ELSE HostingLabels("solana", ip)

StellarHostingLabels(node) ==
    LET ip == IF node.ip # "" THEN node.ip ELSE node.geo_ip
    IN  IF ~node.active THEN <<>>
        ELSE IF ip = "" THEN <<>>
        ELSE IF ~inet_aton_ok(ip) THEN <<>>
        ELSE HostingLabels("stellar", ip)

CardanoHostingLabels(relay) ==
    LET ip == IF relay.ipv4 # "" THEN relay.ipv4 ELSE relay.ipv6
    IN  IF ip = "" THEN <<>>
        ELSE HostingLabels("cardano", replace(replace(ip, "[", ""), "]", ""))

DogecoinHostingLabels(node) ==
    IF ~startswith(node.version, "/Shibetoshi:") THEN <<>>
    ELSE IF ~(node.height > 0) THEN <<>>
    ELSE HostingLabels("dogecoin", split(node.key, ":")[1])

LitecoinHostingLabels(node) ==
    IF node.height <= 0 THEN <<>>
    ELSE HostingLabels("litecoin", split(node.key, ":")[1])

BitcoinCashHostingLabels(node) ==
    LET ip0 == IF node.has_ip THEN node.ip ELSE split(node.key, ":")[1]
        ip == replace(replace(ip0, "[", ""), "]", "")
    IN  IF node.height = 0 THEN <<>>
        ELSE IF AsnRaises(ip) THEN <<>>
        ELSE IF AsnOrg(ip) = "" THEN <<>>
        ELSE <<StripSuffixesBch(AsnOrg(ip))>>

\* near.py, ripple.py: the organization as the database gives it; 'Unknown'
\* when it gives none and when the lookup raises
OrgOrUnknownLabels(ip) ==
    IF AsnRaises(ip) THEN <<"Unknown">>
    ELSE IF AsnOrg(ip) = "" THEN <<"Unknown">>
    ELSE <<AsnOrg(ip)>>

NearIp(peer) == replace(replace(split(peer.addr, ":")[1], "[", ""), "]", "")

NearHostingLabels(peer) == OrgOrUnknownLabels(NearIp(peer))

RippleIp(peer) == replace(replace(split(peer.address, ":")[1], "[::ffff:", ""), "]", "")

RippleHostingLabels(peer) == OrgOrUnknownLabels(RippleIp(peer))

\* litecoin.py: the nodes with a version and a height > 0 whose version,
\* slashes stripped, starts with 'LitecoinCore:'
LitecoinClientLabels(node) ==
    IF node.version # "" /\ node.height > 0
       /\ startswith(stripc(node.version, "/"), "LitecoinCore:")
    THEN <<"Litecoin Core">> ELSE <<>>

polygon_clients == {"bor", "Worldland", "CoreGeth", "reth", "Gqdc", "Ronin"}

PolygonClientLabels_Unknown(node) ==
    LET client == strip(split(node.client, "/")[1])
    IN  IF node.client = "" THEN <<>>
        ELSE IF client \in polygon_clients THEN <<client>> ELSE <<"Unknown">>
PolygonClientLabels(node) ==
    LET client == strip(split(node.client, "/")[1])
    IN  IF node.client = "" THEN <<>>
        ELSE IF client \in polygon_clients THEN <<client>> ELSE <<>>

\* self.client_mappings: r'(?i)^geth.*' and the like replace a name that
\* starts, letter case aside, with the prefix by the client name
client_mappings == <<
    [prefix |-> "geth", name |-> "Geth"], [prefix |-> "go-ethereum", name |-> "Geth"],
    [prefix |-> "erigon", name |-> "Erigon"], [prefix |-> "nethermind", name |-> "Nethermind"],
    [prefix |-> "besu", name |-> "Besu"], [prefix |-> "prysm", name |-> "Prysm"],
    [prefix |-> "lighthouse", name |-> "Lighthouse"], [prefix |-> "teku", name |-> "Teku"],
    [prefix |-> "nimbus", name |-> "Nimbus"], [prefix |-> "lodestar", name |-> "Lodestar"] >>

\* the mappings 1..k applied one after the other
RECURSIVE normalized_names(_, _)
normalized_names(name, k) ==
    IF k = 0 THEN name
    ELSE LET prev == normalized_names(name, k - 1)
         IN  IF startswith(lower(prev), client_mappings[k].prefix)
             THEN client_mappings[k].name ELSE prev

EthereumClientLabels(row) ==
    LET nn == normalized_names(row.name, Len(client_mappings))
    IN  IF \E k \in 1..Len(client_mappings) : client_mappings[k].name = nn
        THEN <<nn>> ELSE <<>>

\* tezos.py: the item is a row of its own when it has both keys
TezosRows(item) ==
    IF item.has_countryCode /\ item.has_count
    THEN <<[Category |-> item.countryCode, Count |-> item.count]>> ELSE <<>>

\* the categories one record of self.data adds 1 to
Labels(n, k, rec) ==
    CASE n = "bitcoin" /\ k = "client" -> BitcoinClientLabels(rec)
      [] n = "bitcoin" /\ k = "geographic" -> BitcoinGeographicLabels(rec)
      [] n = "ethereum" /\ k = "hosting" -> EthereumHostingLabels(rec)
      [] n = "ethereum" /\ k = "client" -> EthereumClientLabels(rec)
      [] n = "polkadot" -> PolkadotHostingLabels(rec)
      [] n = "ethereum_classic" -> EtcHostingLabels(rec)
      [] n = "solana" -> SolanaHostingLabels(rec)
      [] n = "stellar" -> StellarHostingLabels(rec)
      [] n = "cardano" -> CardanoHostingLabels(rec)
      [] n = "dogecoin" -> DogecoinHostingLabels(rec)
      [] n = "litecoin" /\ k = "hosting" -> LitecoinHostingLabels(rec)
      [] n = "litecoin" /\ k = "client" -> LitecoinClientLabels(rec)
      [] n = "polygon" -> PolygonClientLabels(rec)
      [] n = "bitcoin_cash" -> BitcoinCashHostingLabels(rec)
      [] n = "near" -> NearHostingLabels(rec)
      [] n = "ripple" -> RippleHostingLabels(rec)
      [] n = "tezos" -> [i \in 1..Len(TezosRows(rec)) |-> TezosRows(rec)[i].Category]

\* country = node_info[7] outside any try: IndexError on a list that short
\* (the client loop reads node_info[1] inside try/except: continue)
RecordRaises(n, k, rec) ==
    n = "bitcoin" /\ k = "geographic" /\ "country" \notin DOMAIN rec

\* the Counter (for tezos, the list of rows) after one more record
Accumulate(n, k, rows, rec) ==
    IF n = "tezos" THEN rows \o TezosRows(rec)
    ELSE CounterAddAll(rows, Labels(n, k, rec))

-----------------------------------------------------------------------------
(* The table a method returns *)

\* the N of df[df['Count'] > N]; -1: the method applies no threshold
min_count(n, k) ==
    CASE n = "bitcoin" /\ k = "client" -> 1
      [] n \in {"bitcoin_cash", "cardano", "dogecoin", "litecoin"} /\ k = "hosting" -> 1
      [] n \in {"solana", "stellar"} -> 2
      [] OTHER -> -1

\* others_threshold = 3.3, in hundredths of a percent
others_threshold == 330

\* ethereum_classic.py: rows below 3.3% are replaced by one 'Others' row,
\* which pd.concat puts after the rows kept (the row is appended even when
\* its count is 0)
EtcRollUp(df) ==
    LET total == SumCounts(df)
        Small(r) == Percentage2(r.Count, total) < others_threshold
        Large(r) == Percentage2(r.Count, total) >= others_threshold
        others_count == SumCounts(SelectSeq(df, Small))
    IN  SelectSeq(df, Large) \o <<[Category |-> "Others", Count |-> others_count]>>

\* pd.DataFrame(list) of an empty list has no 'Count' column: sort_values
\* raises KeyError
BuildRaises(n, k, rows) == n = "tezos" /\ rows = <<>>

Finish_RollUp(n, k, rows) ==
    IF rows = <<>> THEN <<>> ELSE EtcRollUp(sort_values(rows))
Finish(n, k, rows) ==
    IF n = "ethereum_classic"
    THEN IF rows = <<>> THEN <<>> ELSE EtcRollUp(sort_values(rows))
    ELSE IF min_count(n, k) >= 0 THEN Threshold(sort_values(rows), min_count(n, k))
    ELSE sort_values(rows)

-----------------------------------------------------------------------------
(* One aggregation *)

AggInit ==
    /\ ReqIdle
    /\ RenderIdle
    /\ CliIdle
    /\ CountIdle
    /\ \E p \in Pipelines : net = p[1] /\ kind = p[2]
    /\ source \in SourcesOf(net, kind)
    /\ data = <<>>
    /\ idx = 1
    /\ counts = <<>>
    /\ trace = <<>>
    /\ table = <<>>
    /\ agg_pc = "fetch"

\* fetch_data: self.data holds the source's records (polkadot: one node per
\* address)
FetchData ==
    /\ agg_pc = "fetch"
    /\ data' = IF net = "polkadot" THEN PolkadotFetch(source) ELSE source
    /\ agg_pc' = "loop"
    /\ UNCHANGED <<net, kind, source, idx, counts, trace, table>>
    /\ UNCHANGED <<req_vars, render_vars, cli_vars, count_vars>>

\* one iteration of the loop over self.data
ProcessRecord ==
    /\ agg_pc = "loop"
    /\ idx <= Len(data)
    /\ IF RecordRaises(net, kind, data[idx])
       THEN /\ agg_pc' = "raised"
            /\ UNCHANGED <<counts, trace, idx>>
       ELSE /\ counts' = Accumulate(net, kind, counts, data[idx])
            /\ trace' = Append(trace, Labels(net, kind, data[idx]))
            /\ idx' = idx + 1
            /\ agg_pc' = agg_pc
    /\ UNCHANGED <<net, kind, source, data, table>>
    /\ UNCHANGED <<req_vars, render_vars, cli_vars, count_vars>>

\* after the loop: the DataFrame is built, sorted, filtered and returned
BuildTable ==
    /\ agg_pc = "loop"
    /\ idx > Len(data)
    /\ IF BuildRaises(net, kind, counts)
       THEN agg_pc' = "raised" /\ table' = table
       ELSE agg_pc' = "built" /\ table' = Finish(net, kind, counts)
    /\ UNCHANGED <<net, kind, source, data, idx, counts, trace>>
    /\ UNCHANGED <<req_vars, render_vars, cli_vars, count_vars>>

AggNext == FetchData \/ ProcessRecord \/ BuildTable

-----------------------------------------------------------------------------
(* The CSV file: DataFrame.to_csv(path, index=False) and pd.read_csv(path) *)

\* csv.QUOTE_MINIMAL: a field holding the delimiter or the quote character
\* is quoted, its quotes doubled
csv_quote(s) ==
    IF contains(s, ",") \/ contains(s, "\"")
    THEN "\"" \o replace(s, "\"", "\"\"") \o "\""
    ELSE s

\* the lines of the file: the header, then one line per row (the Percentage
\* column some tables carry is left out: the renderer overwrites it)
to_csv(df) ==
    <<"Category,Count">> \o
    [i \in 1..Len(df) |-> csv_quote(df[i].Category) \o "," \o IntToStr(df[i].Count)]

\* the fields of one line, read by the parser's quote-aware scan
RECURSIVE ScanFields(_, _, _, _)
ScanFields(s, in_quotes, cur, acc) ==
    IF s = "" THEN Append(acc, cur)
    ELSE LET c == Char(s, 1)
             rest == SubSeq(s, 2, Len(s))
         IN  IF in_quotes
             THEN IF c = "\""
                  THEN IF startswith(rest, "\"")
                       THEN ScanFields(SubSeq(rest, 2, Len(rest)), TRUE, cur \o "\"", acc)
                       ELSE ScanFields(rest, FALSE, cur, acc)
                  ELSE ScanFields(rest, TRUE, cur \o c, acc)
             ELSE IF c = "," THEN ScanFields(rest, FALSE, "", Append(acc, cur))
                  ELSE IF c = "\"" /\ cur = "" THEN ScanFields(rest, TRUE, cur, acc)
                  ELSE ScanFields(rest, FALSE, cur \o c, acc)

\* the strings read_csv takes for a missing value (pandas' default na_values)
na_values ==
    {"", "#N/A", "#N/A N/A", "#NA", "-1.#IND", "-1.#QNAN", "-NaN", "-nan", "1.#IND",
     "1.#QNAN", "<NA>", "N/A", "NA", "NULL", "NaN", "None", "n/a", "nan", "null"}

\* pd.read_csv: one row per line after the header; a Category among the
\* na_values is NaN (isna, with no text left)
read_csv(lines) ==
    [i \in 1..(Len(lines) - 1) |->
        LET fields == ScanFields(lines[i + 1], FALSE, "", <<>>)
        IN  IF fields[1] \in na_values
            THEN [Category |-> "", isna |-> TRUE, Count |-> StrToInt(fields[2])]
            ELSE [Category |-> fields[1], isna |-> FALSE, Count |-> StrToInt(fields[2])]]

-----------------------------------------------------------------------------
(* CountryMapper *)

COUNTRY_MAPPING ==
    ( "US" :> "United States" @@ "DE" :> "Germany" @@ "FR" :> "France" @@ "CA" :> "Canada"
   @@ "GB" :> "United Kingdom" @@ "NL" :> "Netherlands" @@ "JP" :> "Japan"
   @@ "SG" :> "Singapore" @@ "RU" :> "Russia" @@ "FI" :> "Finland" @@ "CH" :> "Switzerland"
   @@ "CN" :> "China" @@ "KR" :> "South Korea" @@ "AU" :> "Australia" @@ "HK" :> "Hong Kong"
   @@ "UA" :> "Ukraine" @@ "IT" :> "Italy" @@ "SE" :> "Sweden" @@ "BR" :> "Brazil"
   @@ "ES" :> "Spain" @@ "VN" :> "Vietnam" @@ "IN" :> "India" @@ "TW" :> "Taiwan"
   @@ "PL" :> "Poland" @@ "IE" :> "Ireland" @@ "ZA" :> "South Africa" @@ "NZ" :> "New Zealand"
   @@ "CZ" :> "Czechia" @@ "LT" :> "Lithuania" @@ "ID" :> "Indonesia" @@ "NO" :> "Norway"
   @@ "BE" :> "Belgium" @@ "IR" :> "Iran" @@ "AT" :> "Austria" @@ "EE" :> "Estonia"
   @@ "TR" :> "Turkey" @@ "MY" :> "Myanmar" @@ "HU" :> "Hungary" @@ "MX" :> "Mexico"
   @@ "TH" :> "Thailand" @@ "SI" :> "Slovenia" @@ "IL" :> "Israel" @@ "RO" :> "Romania"
   @@ "NG" :> "Nigeria" @@ "PT" :> "Portugal" @@ "SK" :> "Slovakia" @@ "RS" :> "Serbia"
   @@ "BG" :> "Bulgaria" @@ "LV" :> "Latvia" )

\* COUNTRY_MAPPING.get(code, code)
get_country_name_Unknown(code) ==
    IF code \in DOMAIN COUNTRY_MAPPING THEN COUNTRY_MAPPING[code] ELSE "Unknown"
get_country_name(code) ==
    IF code \in DOMAIN COUNTRY_MAPPING THEN COUNTRY_MAPPING[code] ELSE code

-----------------------------------------------------------------------------
(* PlottingUtils.plot_pie_chart_with_filtered_legend *)

\* data['Category'].apply(CountryMapper.get_country_name); NaN is no key of
\* the mapping and comes back unchanged
ConvertCountries(rows) ==
    [i \in 1..Len(rows) |->
        IF rows[i].isna THEN rows[i]
        ELSE [rows[i] EXCEPT !.Category = get_country_name(rows[i].Category)]]

\* count / total_count * 100 >= 1.5
IsLarge_Fraction(count, total) == 2 * count >= 3 * total
IsLarge_Strict(count, total) == 200 * count > 3 * total
IsLarge(count, total) == 200 * count >= 3 * total

\* count / total_count * 100 < 1.5 (false, like every comparison with NaN,
\* when total_count is 0)
IsSmall(count, total) == total # 0 /\ ~IsLarge(count, total)

\* the characters of the categories, in code-point order
Ascii ==
    " !#$%&()*+,-./0123456789:;<=>?@ABCDEFGHIJKLMNOPQRSTUVWXYZ[]^_abcdefghijklmnopqrstuvwxyz{|}~"

Ord(c) == CHOOSE k \in 1..Len(Ascii) : Char(Ascii, k) = c

\* a < b for two str
RECURSIVE StrLess(_, _)
StrLess(a, b) ==
    IF a = "" THEN b # ""
    ELSE IF b = "" THEN FALSE
    ELSE IF Char(a, 1) = Char(b, 1)
         THEN StrLess(SubSeq(a, 2, Len(a)), SubSeq(b, 2, Len(b)))
         ELSE Ord(Char(a, 1)) < Ord(Char(b, 1))

RECURSIVE SortedKeys(_)
SortedKeys(S) ==
    IF S = {} THEN <<>>
    ELSE LET m == CHOOSE x \in S : \A y \in S : x = y \/ StrLess(x, y)
         IN  <<m>> \o SortedKeys(S \ {m})

\* df.groupby('Category', as_index=False).sum(): one row per category, the
\* categories in sorted order, the counts of equal categories added
groupby_sum(rows) ==
    LET keys == SortedKeys({rows[i].Category : i \in 1..Len(rows)})
    IN  [k \in 1..Len(keys) |->
            [Category |-> keys[k],
             Count |-> SumSeq([i \in 1..Len(rows) |->
                          IF rows[i].Category = keys[k] THEN rows[i].Count ELSE 0])]]

\* lines 26-41: the rows drawn as slices, from the (converted) frame
filtered_data(rows) ==
    LET total_count == SumSeq([i \in 1..Len(rows) |-> rows[i].Count])
        NotNa(r) == ~r.isna
        Large(r) == IsLarge(r.Count, total_count)
        Small(r) == IsSmall(r.Count, total_count)
        notna == SelectSeq(rows, NotNa)
        sorted_data == sort_values([i \in 1..Len(notna) |->
                          [Category |-> notna[i].Category, Count |-> notna[i].Count]])
        large_data == SelectSeq(sorted_data, Large)
        others == SumCounts(SelectSeq(sorted_data, Small))
    IN  IF others > 0
        THEN groupby_sum(large_data \o <<[Category |-> "Others", Count |-> others]>>)
        ELSE large_data

\* lines 60-72: the legend labels are the slices of percentage >= 1.5, and
\* the k-th label is attached to the k-th wedge
legend_entries(rows, filtered) ==
    LET total_count == SumSeq([i \in 1..Len(rows) |-> rows[i].Count])
        Large(r) == IsLarge(r.Count, total_count)
        legend_labels == SelectSeq(filtered, Large)
    IN  [k \in 1..Len(legend_labels) |->
            [Category |-> legend_labels[k].Category, wedge |-> filtered[k].Category]]

\* process_data: the returned table is written to the CSV file
SaveCsv ==
    /\ agg_pc = "built"
    /\ plot_pc = "none"
    /\ csv' = to_csv(table)
    /\ plot_pc' = "saved"
    /\ UNCHANGED <<frame, converted, slices, legend>>
    /\ UNCHANGED <<req_vars, agg_vars, cli_vars, count_vars>>

\* line 20: data = pd.read_csv(csv_path)
ReadCsv ==
    /\ plot_pc = "saved"
    /\ frame' = read_csv(csv)
    /\ plot_pc' = "read"
    /\ UNCHANGED <<csv, converted, slices, legend>>
    /\ UNCHANGED <<req_vars, agg_vars, cli_vars, count_vars>>

\* lines 22-80: conversion (geographic charts), split, pie and legend
PlotPie ==
    /\ plot_pc = "read"
    /\ LET conv == IF kind = "geographic" THEN ConvertCountries(frame) ELSE frame
       IN  /\ converted' = conv
           /\ slices' = filtered_data(conv)
           /\ legend' = legend_entries(conv, filtered_data(conv))
    /\ plot_pc' = "plotted"
    /\ UNCHANGED <<csv, frame>>
    /\ UNCHANGED <<req_vars, agg_vars, cli_vars, count_vars>>

RenderNext == SaveCsv \/ ReadCsv \/ PlotPie

PipelineNext == AggNext \/ RenderNext

-----------------------------------------------------------------------------
(* One run of a network script: __main__, fetch_data, process_data,        *)
(* create_visualizations, run_analysis                                     *)

Scripts ==
    {"algorand", "bitcoin", "bitcoin_cash", "cardano", "dogecoin", "ethereum",
     "ethereum_classic", "litecoin", "near", "polkadot", "polygon", "ripple",
     "solana", "stellar", "tezos"}

\* the scripts that write and plot a client distribution too
ThreeKinds ==
    {"bitcoin", "bitcoin_cash", "ethereum", "ethereum_classic", "litecoin",
     "polygon", "solana"}

\* the distributions of a script, in the order process_data writes them and
\* create_visualizations plots them
DistributionKinds(s) ==
    IF s \in ThreeKinds THEN <<"geographic", "client", "hosting">>
    ELSE <<"geographic", "hosting">>

\* parser.add_argument('--process-only'), parser.add_argument('--plot-only')
Modes == {"default", "process_only", "plot_only"}

\* algorand.py has no argparse, no fetch_data and no run_analysis
HasArgparse(s) == s # "algorand"

\* the scripts whose fetch_data or process_data looks for keys in the
\* response: for them a decoded response without these keys is a case of its
\* own; the others only test whether the source could be read
TestsKeys ==
    {"bitcoin", "bitcoin_cash", "dogecoin", "litecoin", "solana", "near",
     "cardano", "ripple"}

\* what the source answers: "None" (make_request returned None, the file or
\* the database could not be read), "no_nodes" (a decoded, truthy response
\* without the keys of the node list), "ok"
Responses(s) ==
    IF s \in TestsKeys THEN {"None", "no_nodes", "ok"} ELSE {"None", "ok"}

\* self.data = APIUtils.make_request(...): stored whatever it is
StoresResponse == {"bitcoin", "bitcoin_cash", "dogecoin", "litecoin"}

\* self.data after fetch_data
FetchStores(s, resp) ==
    IF s \in StoresResponse THEN resp
    ELSE IF resp = "ok" THEN "ok" ELSE "None"

\* the value fetch_data returns
FetchReturns(s, resp) ==
    IF s = "bitcoin" THEN resp # "None" ELSE resp = "ok"

\* the first test of process_data: print and return False
GuardReturnsFalse(s, d) ==
    IF s \in {"bitcoin", "polkadot", "polygon", "cardano", "ripple"} THEN d # "ok"
    ELSE d = "None"

\* nodes = self.data['data']['nodes'] outside any try: KeyError when the
\* response has no node list
ComputeRaises(s, k, d) ==
    /\ d = "no_nodes"
    /\ \/ s = "litecoin" /\ k = "client"
       \/ s = "dogecoin" /\ k = "geographic"
       \/ s = "bitcoin_cash" /\ k \in {"geographic", "client"}

\* step i of process_data (compute distribution i, then to_csv) raises; f is
\* the write the file system refuses (0: none)
StepRaises(s, d, f, i) == ComputeRaises(s, DistributionKinds(s)[i], d) \/ f = i

FirstRaise(s, d, f) ==
    LET bad == {i \in 1..Len(DistributionKinds(s)) : StepRaises(s, d, f, i)}
    IN  IF bad = {} THEN 0 ELSE CHOOSE i \in bad : \A j \in bad : i <= j

\* process_data: no try/except; the CSV files are written one after the
\* other (get_paths has no 'raw' entry: the raw dump is never written)
process_data(s, d, f) ==
    IF GuardReturnsFalse(s, d)
    THEN [ret |-> "False", written |-> <<>>]
    ELSE LET k == FirstRaise(s, d, f)
         IN  IF k = 0
             THEN [ret |-> "True", written |-> DistributionKinds(s)]
             ELSE [ret |-> "raised", written |-> SubSeq(DistributionKinds(s), 1, k - 1)]

\* create_visualizations wraps its plots in try/except Exception: print
CatchesPlotErrors(s) == s \notin {"bitcoin", "algorand"}

\* create_visualizations; pf is the plot that fails (0: none).  The plot
\* method prints and re-raises.
create_visualizations(s, pf) ==
    IF pf = 0
    THEN [outcome |-> "returned", plotted |-> DistributionKinds(s), log |-> <<>>]
    ELSE [outcome |-> IF CatchesPlotErrors(s) THEN "returned" ELSE "raised",
          plotted |-> SubSeq(DistributionKinds(s), 1, pf - 1),
          log |-> <<"Error in plot_pie_chart_with_filtered_legend">>
                  \o (IF CatchesPlotErrors(s)
                      THEN <<"Error creating visualizations">> ELSE <<>>)]

\* run_analysis: if self.fetch_data(): ...
RunAnalysisAfterFetch_Always(ret) == "process"
RunAnalysisAfterFetch(ret) == IF ret THEN "process" ELSE "exit"

\* run_analysis: if self.process_data(): self.create_visualizations()
RunAnalysisAfterProcess(ret) == IF ret = "True" THEN "render" ELSE "exit"

CliInit ==
    /\ script \in Scripts
    /\ mode \in Modes
    /\ response \in Responses(script)
    /\ fs_fail \in 0..Len(DistributionKinds(script))
    /\ plot_fail \in 0..Len(DistributionKinds(script))
    /\ self_data = "None"
    /\ fetch_ret = "unset"
    /\ process_ret = "unset"
    /\ stages = <<>>
    /\ written = <<>>
    /\ plotted = <<>>
    /\ log = <<>>
    /\ cli_pc = "main"
    /\ ReqIdle /\ AggIdle /\ RenderIdle /\ CountIdle

\* if args.process_only: ... elif args.plot_only: ... else: run_analysis()
Main ==
    /\ cli_pc = "main"
    /\ cli_pc' = IF ~HasArgparse(script) THEN "render"
                 ELSE IF mode = "plot_only" THEN "render"
                 ELSE "fetch"
    /\ UNCHANGED <<script, mode, response, fs_fail, plot_fail, self_data,
                   fetch_ret, process_ret, stages, written, plotted, log>>
    /\ UNCHANGED <<req_vars, agg_vars, render_vars, count_vars>>

RunFetchData ==
    /\ cli_pc = "fetch"
    /\ stages' = Append(stages, "fetch")
    /\ self_data' = FetchStores(script, response)
    /\ fetch_ret' = IF FetchReturns(script, response) THEN "True" ELSE "False"
    /\ cli_pc' = IF mode = "process_only" THEN "process"
                 ELSE RunAnalysisAfterFetch(FetchReturns(script, response))
    /\ UNCHANGED <<script, mode, response, fs_fail, plot_fail, process_ret,
                   written, plotted, log>>
    /\ UNCHANGED <<req_vars, agg_vars, render_vars, count_vars>>

RunProcessData ==
    /\ cli_pc = "process"
    /\ LET r == process_data(script, self_data, fs_fail)
       IN  /\ stages' = Append(stages, "process")
           /\ written' = r.written
           /\ process_ret' = r.ret
           /\ cli_pc' = IF r.ret = "raised" THEN "raised"
                        ELSE IF mode = "process_only" THEN "exit"
                        ELSE RunAnalysisAfterProcess(r.ret)
    /\ UNCHANGED <<script, mode, response, fs_fail, plot_fail, self_data,
                   fetch_ret, plotted, log>>
    /\ UNCHANGED <<req_vars, agg_vars, render_vars, count_vars>>

RunCreateVisualizations ==
    /\ cli_pc = "render"
    /\ LET r == create_visualizations(script, plot_fail)
       IN  /\ stages' = Append(stages, "render")
           /\ plotted' = r.plotted
           /\ log' = log \o r.log
           /\ cli_pc' = IF r.outcome = "raised" THEN "raised" ELSE "exit"
    /\ UNCHANGED <<script, mode, response, fs_fail, plot_fail, self_data,
                   fetch_ret, process_ret, written>>
    /\ UNCHANGED <<req_vars, agg_vars, render_vars, count_vars>>

CliNext == Main \/ RunFetchData \/ RunProcessData \/ RunCreateVisualizations

-----------------------------------------------------------------------------
(* The node-count script: BlockchainNodesFetcher and main                  *)
(* (scripts/node_counts/total_node_count_fetch_data.py)                    *)

\* the fetchers dict of fetch_all_nodes, in insertion order
fetchers ==
    <<"Algorand", "Bitcoin", "Bitcoin Cash", "Cardano", "Dogecoin", "Ethereum",
      "Ethereum Classic", "Litecoin", "NEAR", "Polkadot", "Polygon", "Ripple",
      "Solana", "Stellar", "Tezos">>

\* what a call of a fetcher does: return None, return an int, or raise
RetNone == [tag |-> "None", n |-> 0]
RetInt(k) == [tag |-> "int", n |-> k]
RetRaised == [tag |-> "raised", n |-> 0]

\* What _make_request hands to a fetcher: None (the request failed), a falsy
\* body ("empty": {} or []), a truthy body without the keys the fetcher looks
\* for ("other", of length n), or the payload with n nodes ("nodes").
ApiResponses ==
    {[body |-> "None", n |-> 0], [body |-> "empty", n |-> 0],
     [body |-> "other", n |-> 1], [body |-> "nodes", n |-> 0],
     [body |-> "nodes", n |-> 2]}

\* The fetchers that make one request: if data and <keys in data>: return
\* the count; return None.  Those of Ethereum Classic and Stellar count the
\* body itself: if data: count = len(data).
ApiFetch(name, resp) ==
    IF resp.body \in {"None", "empty"} THEN RetNone
    ELSE IF name \in {"Ethereum Classic", "Stellar"}
    THEN IF resp.n = 0 THEN RetNone ELSE RetInt(resp.n)
    ELSE IF resp.body = "other" THEN RetNone
    ELSE RetInt(resp.n)

\* a local source file: whether open() succeeds, and what readlines() gives
\* (each line without its line end)
AlgorandFiles ==
    {[exists |-> FALSE, lines |-> <<>>]} \cup
    {[exists |-> TRUE, lines |-> l] :
        l \in {<<>>, <<"date,relays">>, <<"date,relays,nodes">>,
               <<"date,relays,nodes", "2024-05-01,0,0">>,
               <<"date,relays,nodes", "2024-05-01,12,1530 ">>}}

\* fetch_algorand_nodes: the third value of the last line; every exception
\* (open, int) is caught and gives None
fetch_algorand_nodes(f) ==
    IF ~f.exists \/ f.lines = <<>> THEN RetNone
    ELSE LET values == split(strip(f.lines[Len(f.lines)]), ",")
         IN  IF Len(values) >= 3
             THEN IF IsDigits(values[3]) THEN RetInt(StrToInt(values[3]))
                  ELSE RetNone
             ELSE RetNone

\* nebula_crawl.json: missing, not JSON, or an object
PolkadotFiles ==
    {[exists |-> FALSE, json |-> "none", has_key |-> FALSE, crawled_peers |-> 0],
     [exists |-> TRUE, json |-> "invalid", has_key |-> FALSE, crawled_peers |-> 0],
     [exists |-> TRUE, json |-> "object", has_key |-> FALSE, crawled_peers |-> 0],
     [exists |-> TRUE, json |-> "object", has_key |-> TRUE, crawled_peers |-> 0],
     [exists |-> TRUE, json |-> "object", has_key |-> TRUE, crawled_peers |-> 5]}

\* fetch_polkadot_nodes: data["crawled_peers"]; every exception gives None
fetch_polkadot_nodes(f) ==
    IF ~f.exists \/ f.json = "invalid" THEN RetNone
    ELSE IF f.has_key THEN RetInt(f.crawled_peers)
    ELSE RetNone

PolygonFiles ==
    {[exists |-> FALSE, lines |-> <<>>], [exists |-> TRUE, lines |-> <<>>],
     [exists |-> TRUE, lines |-> <<"enode-1,PL", "enode-2,DE">>]}

\* fetch_polygon_nodes: len(lines); the except clause returns len(lines)
\* too, and lines is unbound when open() raised: UnboundLocalError
fetch_polygon_nodes(f) ==
    IF f.exists THEN RetInt(Len(f.lines)) ELSE RetRaised

\* what the fetcher of a network can do, over the sources it can meet
Returns(name) ==
    CASE name = "Algorand" -> {fetch_algorand_nodes(f) : f \in AlgorandFiles}
      [] name = "Polkadot" -> {fetch_polkadot_nodes(f) : f \in PolkadotFiles}
      [] name = "Polygon" -> {fetch_polygon_nodes(f) : f \in PolygonFiles}
      [] OTHER -> {ApiFetch(name, resp) : resp \in ApiResponses}

\* if count := fetcher(): the walrus tests the truth value of the count
Truthy_NotNone(r) == r.tag = "int"
Truthy(r) == r.tag = "int" /\ r.n # 0

\* try: if count := fetcher(): node_counts[name] = count
\* except Exception: logger.error
Store(name, r) ==
    IF Truthy(r) THEN Append(node_counts, [name |-> name, count |-> r.n])
    ELSE node_counts

\* params={"count": 100, ...}; if len(data) < 100: break
FullPage == 100

\* the pages of fetch_cardano_nodes the model requests
MaxPages == 2

\* what _make_request returns for one page: None, or a list of n pools
PageResponses ==
    {[body |-> "None", n |-> 0]} \cup
    {[body |-> "list", n |-> k] : k \in {0, 1, FullPage}}

\* if not data: break ... if len(data) < 100: break
LoopBreaks_OnlyShort(d) == d.body # "None" /\ d.n < FullPage
LoopBreaks(d) == d.body = "None" \/ d.n = 0 \/ d.n < FullPage

CountInit ==
    /\ ReqIdle /\ AggIdle /\ RenderIdle /\ CliIdle
    /\ count_pc = "fetch_all"
    /\ pos = 1
    /\ called = <<>>
    /\ last_ret = [tag |-> "unset", n |-> 0]
    /\ node_counts = <<>>
    /\ page = 1
    /\ all_pools = 0
    /\ requested = <<>>
    /\ received = <<>>
    /\ saved = "unset"

\* one iteration of the loop of fetch_all_nodes, for a fetcher that makes
\* one request or reads one file
CallFetcher ==
    /\ count_pc = "fetch_all"
    /\ pos <= Len(fetchers)
    /\ fetchers[pos] # "Cardano"
    /\ \E r \in Returns(fetchers[pos]) :
        /\ last_ret' = r
        /\ node_counts' = Store(fetchers[pos], r)
    /\ called' = Append(called, fetchers[pos])
    /\ pos' = pos + 1
    /\ UNCHANGED <<count_pc, page, all_pools, requested, received, saved>>
    /\ UNCHANGED <<req_vars, agg_vars, render_vars, cli_vars>>

\* The iteration of fetch_all_nodes that calls fetch_cardano_nodes, one
\* step per iteration of its while loop; the step that breaks also returns
\* and stores the count.
CardanoPage ==
    /\ count_pc = "fetch_all"
    /\ pos <= Len(fetchers)
    /\ fetchers[pos] = "Cardano"
    /\ page <= MaxPages
    /\ \E d \in PageResponses :
        LET got == IF d.body = "None" \/ d.n = 0 THEN all_pools
                   ELSE all_pools + d.n
            r == IF got > 0 THEN RetInt(got) ELSE RetNone
        IN  /\ requested' = Append(requested, page)
            /\ received' = Append(received, d)
            /\ all_pools' = got
            /\ IF LoopBreaks(d)
               THEN /\ last_ret' = r
                    /\ node_counts' = Store("Cardano", r)
                    /\ pos' = pos + 1
                    /\ page' = page
               ELSE /\ page' = page + 1
                    /\ UNCHANGED <<last_ret, node_counts, pos>>
    /\ called' = IF requested = <<>> THEN Append(called, "Cardano") ELSE called
    /\ UNCHANGED <<count_pc, saved>>
    /\ UNCHANGED <<req_vars, agg_vars, render_vars, cli_vars>>

\* main, after fetch_all_nodes returned: if node_counts: save_data(...);
\* save_data logs an IOError of the write
MainSave ==
    /\ count_pc = "fetch_all"
    /\ pos > Len(fetchers)
    /\ IF node_counts # <<>>
       THEN saved' \in {"saved", "io_error"}
       ELSE saved' = "skipped"
    /\ count_pc' = "done"
    /\ UNCHANGED <<pos, called, last_ret, node_counts, page, all_pools,
                   requested, received>>
    /\ UNCHANGED <<req_vars, agg_vars, render_vars, cli_vars>>

CountNext == CallFetcher \/ CardanoPage \/ MainSave

-----------------------------------------------------------------------------
(* Specifications *)

\* One call of a request helper.  Every HTTP attempt ends: requests.request
\* is called with timeout=10, so the loop is weakly fair.
SpecReq == ReqInit /\ [][ReqNext]_vars /\ WF_vars(ReqNext)

\* One distribution of one network over one source: the
\* process_*_distribution method, the CSV file, the pie chart.
SpecPipeline == AggInit /\ [][PipelineNext]_vars

\* one run of a network script
SpecCli == CliInit /\ [][CliNext]_vars

\* one run of the node-count script
SpecCounts == CountInit /\ [][CountNext]_vars

-----------------------------------------------------------------------------
(* Claims about the request helpers *)

Last(q) == q[Len(q)]

\* C9: neither request helper raises to its caller on a transport error, an
\* HTTP error status or a malformed-JSON body; every such failure of the last
\* attempt ends the call with the result None.
C9_NeverRaises ==
    /\ req_pc # "raised"
    /\ (req_pc = "returned" /\ history # <<>> /\ Last(history) # "ok")
          => req_result = "None"

C9_Witness ==
    /\ helper = "Fetcher" /\ req_pc = "returned" /\ req_result = "None"
    /\ history = <<"Timeout", "json.JSONDecodeError">>

\* The number of attempts among the first two that failed with a
\* RequestException (the failures _make_request retries)
RetriedFailures ==
    Cardinality({k \in 1..Len(history) : k < 3 /\ IsRequestException(history[k])})

C10_Inv ==
    helper = "Fetcher" =>
        /\ Len(history) <= 3
        /\ \A k \in 1..(Len(history) - 1) : history[k] # "ok"
        /\ (history # <<>> /\ Last(history) = "ok")
              => (req_pc = "returned" /\ req_result = "json")
        /\ Len(sleeps) = RetriedFailures
        /\ \A k \in 1..Len(sleeps) : sleeps[k] = k
        /\ (Len(history) = 3 /\ Last(history) # "ok")
              => (req_pc = "returned" /\ req_result = "None" /\ sleeps = <<1, 2>>)

\* C10: _make_request makes at most 3 attempts, returns at once on the first
\* success, sleeps 1 second after the first failed attempt and 2 seconds after
\* the second, returns None after the third failure without sleeping again,
\* and always terminates.
C10_BoundedRetry == []C10_Inv /\ <>(req_pc = "returned")

C10_Witness ==
    /\ helper = "Fetcher" /\ req_pc = "returned" /\ req_result = "None"
    /\ history = <<"ConnectionError", "HTTPError", "Timeout">> /\ sleeps = <<1, 2>>
-----------------------------------------------------------------------------
(* Claims about the aggregators *)

\* the number of node records read from the source (a tezos item stands for
\* as many nodes as its count)
NodeRecords ==
    IF net = "tezos"
    THEN SumSeq([i \in 1..Len(source) |-> IF source[i].has_count THEN source[i].count ELSE 0])
    ELSE Len(source)

\* C1: the sum of the Count column of the produced table is at most the
\* number of node records read from the source, and one source record adds
\* at most one unit to the table.
C1_CountAtMostRecords ==
    agg_pc = "built" =>
        /\ SumCounts(table) <= NodeRecords
        /\ \A k \in 1..Len(trace) : Len(trace[k]) <= 1

\* C2: every returned table is sorted by Count descending: for adjacent rows
\* i and i+1, Count(i) >= Count(i+1), the Ethereum Classic hosting table with
\* its roll-up row included.
C2_SortedByCountDesc ==
    agg_pc = "built" =>
        \A i \in 1..(Len(table) - 1) : table[i].Count >= table[i + 1].Count

RowSet(rows) == {rows[i] : i \in 1..Len(rows)}

\* the thresholds the claim states, per method
StatedThreshold ==
    CASE net = "bitcoin" /\ kind = "client" -> 1
      [] net \in {"bitcoin_cash", "cardano", "dogecoin", "litecoin"} /\ kind = "hosting" -> 1
      [] net \in {"solana", "stellar"} -> 2
      [] OTHER -> -1

\* C3: a minimum-count threshold keeps exactly the categories whose count is
\* strictly greater than the threshold, each once and with its count
\* unchanged (>1 for Bitcoin client, Bitcoin Cash, Cardano, Dogecoin and
\* Litecoin hosting, >2 for Solana and Stellar hosting); counts 10, 5, 1
\* under >1 give exactly the rows of 10 and 5.
C3_ThresholdKeepsStrictlyGreater ==
    (agg_pc = "built" /\ StatedThreshold >= 0) =>
        /\ RowSet(table) = {r \in RowSet(counts) : r.Count > StatedThreshold}
        /\ Len(table) = Cardinality(RowSet(table))
        /\ RowSet(counts) = {[Category |-> "Bitcoin Core", Count |-> 10],
                             [Category |-> "btcd", Count |-> 5],
                             [Category |-> "bcoin", Count |-> 1]}
              => table = <<[Category |-> "Bitcoin Core", Count |-> 10],
                           [Category |-> "btcd", Count |-> 5]>>

C3_Witness ==
    /\ net = "bitcoin" /\ kind = "client" /\ agg_pc = "built"
    /\ [Category |-> "bcoin", Count |-> 1] \in RowSet(counts)
    /\ table = <<[Category |-> "Bitcoin Core", Count |-> 10],
                 [Category |-> "btcd", Count |-> 5]>>

\* C7: for every network and every canonical provider name P of its
\* known_providers table, a peer whose organization string is P is matched
\* (not left unmatched, not dropped) and counted in the bucket P.
C7_AliasIdempotent ==
    (net \in HostingNets /\ kind = "hosting") =>
        \A k \in 1..Len(trace) : \A j \in 1..Len(CanonicalNames) :
            ( /\ data[k] = CanonicalNode(net, j)
              /\ \E p \in 1..Len(known_providers(net)) :
                    known_providers(net)[p].provider = CanonicalNames[j] )
            => /\ trace[k] = <<CanonicalNames[j]>>
               /\ Classify(net, StripSuffixes7(AsnOrg(CanonicalIp(j)))).matched

C7_Witness ==
    /\ net = "cardano" /\ kind = "hosting" /\ agg_pc = "built"
    /\ Len(trace) = Len(CanonicalNames)
    /\ data[13] = CanonicalNode("cardano", 13)
    /\ trace[13] = <<"Netcup">>
    /\ [Category |-> "Netcup", Count |-> 1] \in RowSet(counts)

-----------------------------------------------------------------------------
(* Claims about the CSV file and the renderer *)

Categories(rows) == {rows[i].Category : i \in 1..Len(rows)}

\* the chart of a table of 60%, 35% and 5% has been drawn
Plotted_60_35_5 ==
    /\ plot_pc = "plotted"
    /\ RowSet(table) = {[Category |-> "US", Count |-> 60], [Category |-> "DE", Count |-> 35],
                        [Category |-> "FR", Count |-> 5]}

\* C4 (as stated): for percentages 60%, 35%, 5% the legend entries are
\* exactly the first two categories, and the third is folded into the
\* "Others" slice at 5%.
C4_SmallestFoldedIntoOthers ==
    Plotted_60_35_5 =>
        /\ Categories(legend) = {"United States", "Germany"}
        /\ [Category |-> "Others", Count |-> 5] \in RowSet(slices)

\* C4 (amended): for percentages 60%, 35%, 5% every category is at least
\* 1.5%: each is drawn as its own slice, the legend lists all three, and
\* there is no "Others" slice.
C4_AllThreeInLegend ==
    Plotted_60_35_5 =>
        /\ slices = <<[Category |-> "United States", Count |-> 60],
                      [Category |-> "Germany", Count |-> 35],
                      [Category |-> "France", Count |-> 5]>>
        /\ [k \in 1..Len(legend) |-> legend[k].Category] = <<"United States", "Germany", "France">>
        /\ "Others" \notin Categories(slices)

C4_Witness ==
    /\ Plotted_60_35_5
    /\ net = "tezos"
    /\ Len(legend) = 3

\* the rows of the re-read table that have a category, and the total
PresentRows == {converted[i] : i \in {k \in 1..Len(converted) : ~converted[k].isna}}
TotalCount == SumSeq([i \in 1..Len(converted) |-> converted[i].Count])
AtLeastOneAndAHalfPercent(count) == 200 * count >= 3 * TotalCount
SmallSum ==
    SumSeq([i \in 1..Len(converted) |->
              IF ~converted[i].isna /\ ~AtLeastOneAndAHalfPercent(converted[i].Count)
              THEN converted[i].Count ELSE 0])

\* C5: every category of percentage >= 1.5 is a slice of its own with its
\* own count; the categories below 1.5 are summed into one "Others" slice,
\* which exists only when the sum is > 0; the legend lists exactly the
\* slices of percentage >= 1.5.
C5_SplitAtOneAndAHalfPercent ==
    plot_pc = "plotted" =>
        /\ RowSet(slices) =
              {[Category |-> r.Category, Count |-> r.Count] :
                  r \in {x \in PresentRows : AtLeastOneAndAHalfPercent(x.Count)}}
              \cup (IF SmallSum > 0 THEN {[Category |-> "Others", Count |-> SmallSum]} ELSE {})
        /\ Len(slices) = Cardinality(RowSet(slices))
        /\ Categories(legend) =
              {s.Category : s \in {x \in RowSet(slices) : AtLeastOneAndAHalfPercent(x.Count)}}
        /\ Len(legend) = Cardinality(Categories(legend))

\* two countries of 1% each are drawn as one "Others" slice of 2%, listed
\* in the legend
C5_Witness ==
    /\ plot_pc = "plotted"
    /\ RowSet(table) = {[Category |-> "US", Count |-> 98], [Category |-> "AR", Count |-> 1],
                        [Category |-> "BO", Count |-> 1]}
    /\ slices = <<[Category |-> "Others", Count |-> 2],
                  [Category |-> "United States", Count |-> 98]>>
    /\ Categories(legend) = {"Others", "United States"}

\* C6: the table read back from the CSV has the same categories, with the
\* same counts, as the table that was persisted.
C6_RoundTrip ==
    plot_pc \in {"read", "plotted"} =>
        /\ \A i \in 1..Len(frame) : ~frame[i].isna
        /\ {[Category |-> frame[i].Category, Count |-> frame[i].Count] : i \in 1..Len(frame)}
              = RowSet(table)

\* C8: a code that is a key of COUNTRY_MAPPING is shown under its fixed
\* display name, any other code is shown unchanged.
C8_CountryNameTotal ==
    (plot_pc = "plotted" /\ kind = "geographic") =>
        /\ Len(converted) = Len(frame)
        /\ \A i \in 1..Len(frame) : ~frame[i].isna =>
              /\ frame[i].Category \in DOMAIN COUNTRY_MAPPING
                    => converted[i].Category = COUNTRY_MAPPING[frame[i].Category]
              /\ frame[i].Category \notin DOMAIN COUNTRY_MAPPING
                    => converted[i].Category = frame[i].Category
              /\ frame[i].Category = "US" => converted[i].Category = "United States"
              /\ frame[i].Category = "DE" => converted[i].Category = "Germany"
              /\ frame[i].Category = "AR" => converted[i].Category = "AR"

C8_Witness ==
    /\ plot_pc = "plotted" /\ kind = "geographic"
    /\ \E i, j \in 1..Len(frame) :
          /\ frame[i].Category = "US" /\ converted[i].Category = "United States"
          /\ frame[j].Category = "AR" /\ converted[j].Category = "AR"

-----------------------------------------------------------------------------
(* Claims about one run of a script *)

\* C11: when fetch_data reports failure (returns False), the run writes or
\* overwrites no distribution CSV and plots nothing, in the default mode and
\* with --process-only alike.
C11_NoCsvAfterFetchFailure ==
    fetch_ret = "False" => written = <<>> /\ plotted = <<>>

IsPrefix(p, q) == Len(p) <= Len(q) /\ SubSeq(q, 1, Len(p)) = p

Called(stage) == \E i \in 1..Len(stages) : stages[i] = stage

\* the run goes through run_analysis
RunsRunAnalysis == mode = "default" /\ HasArgparse(script)

\* C12: run_analysis calls fetch_data, then process_data, then
\* create_visualizations, each at most once and in this order; process_data
\* is called only after fetch_data returned True and create_visualizations
\* only after process_data returned True.
C12_StagesInOrder ==
    RunsRunAnalysis =>
        /\ IsPrefix(stages, <<"fetch", "process", "render">>)
        /\ Called("process") => fetch_ret = "True"
        /\ Called("render") => process_ret = "True"

C12_Witness ==
    /\ RunsRunAnalysis
    /\ stages = <<"fetch", "process", "render">>
    /\ cli_pc = "exit"

Finished == cli_pc \in {"exit", "raised"}

\* C13: with --process-only a run fetches and aggregates and never renders
\* (no chart is saved); with --plot-only it only renders, neither fetching
\* nor writing a CSV; without a flag it runs the pipeline from the fetch on.
C13_ModeEffects ==
    /\ mode = "process_only" =>
          /\ ~Called("render") /\ plotted = <<>>
          /\ Finished => Called("fetch") /\ Called("process")
    /\ mode = "plot_only" =>
          /\ ~Called("fetch") /\ ~Called("process") /\ written = <<>>
          /\ Finished => stages = <<"render">>
    /\ mode = "default" =>
          (Finished => Called("fetch"))

\* C14: a plot that fails is logged and the exception leaves neither
\* create_visualizations nor run_analysis, whatever the script.
C14_RenderFailureContained ==
    (Called("render") /\ plot_fail # 0) => (log # <<>> /\ cli_pc # "raised")

\* C15: a CSV write the file system refuses makes process_data report a
\* failure result; the exception does not leave process_data.
C15_WriteFailureContained ==
    (Called("process") /\ fs_fail # 0) => process_ret # "raised"

-----------------------------------------------------------------------------
(* Claims about bad records, failed lookups and the classification *)

\* the record is malformed or lacks a field the aggregation reads
Malformed(n, k, rec) ==
    CASE n = "bitcoin" /\ k = "geographic" -> "country" \notin DOMAIN rec
      [] n = "bitcoin" /\ k = "client" -> rec.version = ""
      [] n = "ethereum" /\ k = "hosting" -> rec.text = "bad" \/ ~rec.has_maddrs
      [] n = "tezos" -> ~(rec.has_countryCode /\ rec.has_count)
      [] OTHER -> FALSE

\* C16: a malformed record is skipped and the loop goes on with the next
\* record: the aggregation does not raise at it and it adds to no category.
C16_BadRecordSkipped ==
    \A i \in 1..Len(data) :
        Malformed(net, kind, data[i]) =>
            /\ ~(agg_pc = "raised" /\ idx = i)
            /\ idx > i => trace[i] = <<>>

\* the address a record hands to reader.asn (<<>>: the record is dropped
\* before the lookup)
LookupAddress(n, rec) ==
    CASE n = "solana" ->
            LET ip == split(rec.gossip, ":")[1]
            IN  IF inet_aton_ok(ip) THEN <<ip>> ELSE <<>>
      [] n = "stellar" ->
            LET ip == IF rec.ip # "" THEN rec.ip ELSE rec.geo_ip
            IN  IF rec.active /\ ip # "" /\ inet_aton_ok(ip) THEN <<ip>> ELSE <<>>
      [] n = "cardano" ->
            LET ip == IF rec.ipv4 # "" THEN rec.ipv4 ELSE rec.ipv6
            IN  IF ip # "" THEN <<replace(replace(ip, "[", ""), "]", "")>> ELSE <<>>
      [] n = "dogecoin" ->
            IF startswith(rec.version, "/Shibetoshi:") /\ rec.height > 0
            THEN <<split(rec.key, ":")[1]>> ELSE <<>>
      [] n = "litecoin" ->
            IF rec.height > 0 THEN <<split(rec.key, ":")[1]>> ELSE <<>>
      [] n = "bitcoin_cash" ->
            LET ip == IF rec.has_ip THEN rec.ip ELSE split(rec.key, ":")[1]
            IN  IF rec.height # 0 THEN <<replace(replace(ip, "[", ""), "]", "")>> ELSE <<>>
      [] n = "polkadot" -> IF rec.ip # "" THEN <<rec.ip>> ELSE <<>>
      [] n = "near" -> <<NearIp(rec)>>
      [] n = "ripple" -> <<RippleIp(rec)>>
      [] OTHER -> <<>>

\* reader.asn raises for the record's address
LookupFails(n, rec) ==
    kind = "hosting" /\ LookupAddress(n, rec) # <<>> /\ AsnRaises(LookupAddress(n, rec)[1])

C18_NoOthersInAnyTable ==
    agg_pc = "built" => ~HasCategory(table, "Others")

\* C18 (amended): no process_*_distribution method other than the hosting
\* method of ethereum_classic returns a table with an "Others" row; for the
\* other networks only the rendering step adds one.
C18_NoOthersOutsideEtc ==
    (agg_pc = "built" /\ net # "ethereum_classic") => ~HasCategory(table, "Others")

C18_Witness ==
    /\ plot_pc = "plotted"
    /\ net # "ethereum_classic"
    /\ Len(table) >= 2
    /\ ~HasCategory(table, "Others")
    /\ HasCategory(slices, "Others")

\* the organization the classification of record rec works on (<<>>: the
\* record does not reach the classification)
ClassifiedOrg(n, rec) ==
    IF n \in HostingNets /\ LookupAddress(n, rec) # <<>>
       /\ ~AsnRaises(LookupAddress(n, rec)[1])
       /\ AsnOrg(LookupAddress(n, rec)[1]) # ""
    THEN <<StripSuffixes7(AsnOrg(LookupAddress(n, rec)[1]))>>
    ELSE <<>>

\* the providers of the table one of whose variants is, letter case aside, a
\* substring of org: their positions in table order
ProviderHits(n, org) ==
    {k \in 1..Len(known_providers(n)) :
        \E v \in 1..Len(known_providers(n)[k].variations) :
            contains(lower(org), lower(known_providers(n)[k].variations[v]))}

FirstHit(n, org) == CHOOSE k \in ProviderHits(n, org) : \A j \in ProviderHits(n, org) : k <= j

ContainsExclusion(n, org) ==
    \E x \in 1..Len(exclusions(n)) : contains(lower(org), exclusions(n)[x])

\* the loop has just classified the organization of a record
JustClassified ==
    /\ agg_pc = "loop"
    /\ kind = "hosting"
    /\ trace # <<>>
    /\ ClassifiedOrg(net, data[Len(trace)]) # <<>>

LastOrg == ClassifiedOrg(net, data[Len(trace)])[1]

\* C19: an organization is counted in at most one bucket; when variants of
\* one or more providers occur in it, letter case aside, it is counted for
\* the first of these providers in table order and for no other.
C19_FirstProviderWins ==
    JustClassified =>
        /\ Len(Last(trace)) <= 1
        /\ ProviderHits(net, LastOrg) # {} =>
              Last(trace) = <<known_providers(net)[FirstHit(net, LastOrg)].provider>>

\* an organization holding variants of two providers has been classified
C19_Witness ==
    /\ agg_pc = "loop"
    /\ Len(trace) = 1
    /\ trace[1] = <<"Microsoft Azure">>
    /\ JustClassified
    /\ Cardinality(ProviderHits(net, LastOrg)) >= 2

\* C20: an organization matching no provider is counted under its own
\* stripped name unless it contains an exclusion keyword, and then it is
\* counted nowhere; an organization matching a provider is counted for that
\* provider even when it contains an exclusion keyword.
C20_ExclusionsOnlyForUnmatched ==
    JustClassified =>
        /\ ProviderHits(net, LastOrg) = {} =>
              Last(trace) = IF ContainsExclusion(net, LastOrg) THEN <<>> ELSE <<LastOrg>>
        /\ (ProviderHits(net, LastOrg) # {} /\ ContainsExclusion(net, LastOrg)) =>
              Last(trace) = <<known_providers(net)[FirstHit(net, LastOrg)].provider>>

\* an unmatched organization with an exclusion keyword was dropped, then an
\* organization matching a provider and holding an exclusion keyword was
\* counted for the provider
C20_Witness ==
    /\ agg_pc = "loop"
    /\ Len(trace) = 2
    /\ trace[1] = <<>>
    /\ trace[2] # <<>>
    /\ ClassifiedOrg(net, data[1]) # <<>>
    /\ ProviderHits(net, ClassifiedOrg(net, data[1])[1]) = {}
    /\ ContainsExclusion(net, ClassifiedOrg(net, data[1])[1])
    /\ JustClassified
    /\ ProviderHits(net, LastOrg) # {}
    /\ ContainsExclusion(net, LastOrg)

-----------------------------------------------------------------------------
(* Claims about the charts of one run *)

\* C29: the charts of a run are rendered independently: when one plot
\* fails, every other chart of create_visualizations is still saved.
C29_ChartsIndependent ==
    (Called("render") /\ plot_fail # 0) =>
        \A i \in 1..Len(DistributionKinds(script)) :
            i # plot_fail =>
                \E j \in 1..Len(plotted) : plotted[j] = DistributionKinds(script)[i]

\* C27: the renderer conserves counts: the counts of the slices drawn sum
\* to the sum of the Count column of the frame read from the CSV.
C27_SlicesConserveCounts ==
    plot_pc = "plotted" =>
        SumCounts(slices) = SumSeq([i \in 1..Len(frame) |-> frame[i].Count])

\* the legend pairs its k-th label with the k-th wedge of the pie
\* C28: every legend entry is attached to the wedge of its own category.
C28_LegendOnOwnWedge ==
    plot_pc = "plotted" =>
        \A k \in 1..Len(legend) : legend[k].wedge = legend[k].Category

\* C22: every persisted table has at most one row per category.
C22_UniqueByCategory ==
    plot_pc # "none" =>
        \A i, j \in 1..Len(table) :
            table[i].Category = table[j].Category => i = j

-----------------------------------------------------------------------------
(* Claims about the client classification and the Litecoin population *)

InclusionListNets == {"bitcoin", "ethereum", "litecoin", "polygon"}

\* the client buckets a network's inclusion list can produce
ClientBuckets(n) ==
    CASE n = "bitcoin" -> {valid_clients[c] : c \in DOMAIN valid_clients} \cup {"Bitcoin Knots"}
      [] n = "ethereum" -> {client_mappings[k].name : k \in 1..Len(client_mappings)}
      [] n = "litecoin" -> {"Litecoin Core"}
      [] n = "polygon" -> polygon_clients

\* the bucket the claim gives a Bitcoin version string (<<>>: dropped)
BitcoinStatedBucket(version) ==
    LET clean == stripc(version, "/")
        before == split(clean, ":")[1]
    IN  IF contains(version, "Knots") THEN <<"Bitcoin Knots">>
        ELSE IF contains(clean, ":") /\ before \in DOMAIN valid_clients
                /\ ~\E x \in 1..Len(invalid_keywords) : contains(version, invalid_keywords[x])
             THEN <<valid_clients[before]>>
        ELSE <<>>

ClientJustClassified ==
    agg_pc = "loop" /\ kind = "client" /\ net \in InclusionListNets /\ trace # <<>>

\* C21: in the client classification of bitcoin, ethereum, litecoin and
\* polygon a node adds at most 1 to at most one bucket, every bucket is a
\* client of the inclusion list (never "Unknown"), and a Bitcoin version
\* string goes to "Bitcoin Knots" when it contains "Knots", otherwise to the
\* mapped name of the part before ':' unless an invalid keyword occurs in it.
C21_UnmatchedClientDropped ==
    ClientJustClassified =>
        /\ Len(Last(trace)) <= 1
        /\ \A j \in 1..Len(Last(trace)) : Last(trace)[j] \in ClientBuckets(net)
        /\ ~HasCategory(counts, "Unknown")
        /\ net = "bitcoin" => Last(trace) = BitcoinStatedBucket(data[Len(trace)].version)

\* a node of the inclusion list was counted, then one of an unknown client
\* was dropped
C21_Witness ==
    /\ ClientJustClassified
    /\ Len(trace) = 2
    /\ trace[1] # <<>>
    /\ trace[2] = <<>>
    /\ net = "polygon"
    /\ data[2].client = "Geth/v1.13.5/linux-amd64"

\* the filters of the geographic and client distributions of litecoin.py
LitecoinPopulation(node) ==
    startswith(node.version, "/LitecoinCore:") /\ node.height > 0

\* C30: a node adds to the Litecoin hosting distribution only if it passes
\* the filters of the geographic and client distributions.
C30_SamePopulation ==
    (agg_pc = "loop" /\ net = "litecoin" /\ kind = "hosting" /\ trace # <<>>) =>
        (Last(trace) # <<>> => LitecoinPopulation(data[Len(trace)]))

-----------------------------------------------------------------------------
(* Claims about the node-count script *)

CardanoIdx == CHOOSE i \in 1..Len(fetchers) : fetchers[i] = "Cardano"

\* fetch_cardano_nodes is running its loop / has returned in the last step
CardanoLooping == pos = CardanoIdx /\ requested # <<>>
CardanoJustReturned == pos = CardanoIdx + 1

\* a page whose request failed, or that holds fewer than 100 entries
FailedOrShort(d) == d.body = "None" \/ d.n < 100

\* the entries of the pages received
RECURSIVE EntriesReceived(_)
EntriesReceived(q) ==
    IF q = <<>> THEN 0
    ELSE (IF Head(q).body = "None" THEN 0 ELSE Head(q).n) + EntriesReceived(Tail(q))

\* C26: fetch_cardano_nodes requests pages 1, 2, 3, ... in increasing order;
\* every page before the last one received was a full page; the loop is
\* left in the step that receives a failed or short page (so it ends for
\* every sequence of responses holding one); the value returned is the number
\* of entries of the pages received, None when that number is 0.
C26_PageLoop ==
    /\ requested = [i \in 1..Len(requested) |-> i]
    /\ Len(received) = Len(requested)
    /\ \A i \in 1..(Len(received) - 1) : ~FailedOrShort(received[i])
    /\ CardanoLooping => ~FailedOrShort(received[Len(received)])
    /\ CardanoJustReturned =>
        /\ received # <<>>
        /\ FailedOrShort(received[Len(received)])
        /\ last_ret = IF EntriesReceived(received) = 0 THEN RetNone
                      ELSE RetInt(EntriesReceived(received))

\* a full first page and a short second one: 101 pools
C26_Witness ==
    /\ CardanoJustReturned
    /\ requested = <<1, 2>>
    /\ last_ret = RetInt(101)

\* the entry of a network in node_counts
HasEntry(name) == \E i \in 1..Len(node_counts) : node_counts[i].name = name

\* C23: when a page request of fetch_cardano_nodes fails, the fetch reports
\* failure (None) and no count made of the pages that did arrive is stored.
C23_NoPartialCount ==
    (CardanoJustReturned /\ \E i \in 1..Len(received) : received[i].body = "None")
        => (last_ret = RetNone /\ ~HasEntry("Cardano"))

\* C24: no fetch_<network>_nodes method raises: each returns an int or None.
C24_FetchersNeverRaise ==
    called # <<>> => last_ret.tag \in {"unset", "None", "int"}

\* the fetcher that returned in the last step
JustCalled == pos > 1 /\ ~CardanoLooping /\ count_pc = "fetch_all"

\* node_counts is left alone, or gains one entry at its end
KeepsEntries ==
    \/ node_counts' = node_counts
    \/ /\ Len(node_counts') = Len(node_counts) + 1
       /\ SubSeq(node_counts', 1, Len(node_counts)) = node_counts

C25_Inv ==
    /\ called = SubSeq(fetchers, 1, Len(called))
    /\ Len(called) = IF pos = CardanoIdx /\ requested = <<>> THEN pos - 1
                     ELSE IF pos = CardanoIdx THEN pos
                     ELSE pos - 1
    /\ \A i \in 1..Len(node_counts) :
        /\ \E j \in 1..Len(called) : called[j] = node_counts[i].name
        /\ \A j \in 1..Len(node_counts) :
            node_counts[j].name = node_counts[i].name => j = i
    /\ JustCalled =>
        IF last_ret.tag = "int" /\ last_ret.n # 0
        THEN /\ node_counts # <<>>
             /\ node_counts[Len(node_counts)] =
                    [name |-> fetchers[pos - 1], count |-> last_ret.n]
        ELSE ~HasEntry(fetchers[pos - 1])
    /\ saved # "unset" =>
        /\ called = fetchers
        /\ (saved \in {"saved", "io_error"}) <=> (node_counts # <<>>)

====
